---- MODULE Spec2Model ----
(***************************************************************************)
(* The indexing orchestrator of onyx: the beat tick check_for_indexing,    *)
(* the doc-fetching watchdog connector_indexing_proxy_task and its spawned *)
(* child docfetching_task, the per-batch document_indexing_pipeline_task   *)
(* and the monitor monitor_ccpair_indexing_taskset, over a shared KV store *)
(* (fences, heartbeats, locks) and the database (cc-pairs, attempts).      *)
(***************************************************************************)
EXTENDS Integers, FiniteSets, TLC, Sequences

(* ------------------------------ bounds --------------------------------- *)
\* cc-pairs, each indexed under the one current search settings
NumPairs == 1
\* invocations of check_for_indexing the scheduler may have in flight, and
\* the number of them a run without contention uses
NumBeats == 2
SoleBeat == 1
\* index attempts the database issues ids for
MaxAttempts == 2
\* batches one fetch produces at most
MaxBatches == 2
\* Spec: doc-fetching tasks the worker pool picks up, batches one fetch
\* produces, and environment events (a fault, a signal, a redelivery)
SpecRuns == 1
SpecBatches == 1
SpecEvents == 1
\* lease of the connector_active heartbeat, in supervisor polls
ConnectorTtl == 2
\* polls of the fence-readiness wait before it times out
FenceWaitPolls == 1

(* ------------------------- program constants --------------------------- *)
SpawnWaitLimit == 15
FAILURE_THRESHOLD == 3
FAILURE_RATIO_PERCENT == 10
HTTP_OK == 200
HTTP_INTERNAL_SERVER_ERROR == 500

Pairs == 1..NumPairs
Invocations == 1..NumBeats
\* how many times over a completion write is repeated
MaxWrites == 3

\* what the indexing pipeline returns for a batch: <<failures, new_docs>>
PipelineResults == {<<0, 10>>, <<4, 10>>, <<4, 40>>}

\* a tick budget that never runs out
Unbounded == 0 - 1

AttemptIds == 1..MaxAttempts
BatchNums == 1..MaxBatches
None == 0

NonTerminalStatuses == {"NOT_STARTED", "IN_PROGRESS"}
TerminalStatuses == {"SUCCESS", "PARTIAL_SUCCESS", "FAILED", "CANCELED"}
READY_STATES == {"SUCCESS", "FAILURE", "REVOKED"}

Min(S) == CHOOSE x \in S : \A y \in S : x <= y

(* --------------- IndexingWatchdogTerminalStatus.code ------------------- *)
Code(status) ==
    CASE status = "process_signal_sigkill" -> -9
      [] status = "out_of_memory" -> 137
      [] status = "connector_validation_error" -> 247
      [] status = "blocked_by_deletion" -> 248
      [] status = "blocked_by_stop_signal" -> 249
      [] status = "fence_not_found" -> 250
      [] status = "fence_readiness_timeout" -> 251
      [] status = "fence_mismatch" -> 252
      [] status = "task_already_running" -> 253
      [] status = "index_attempt_mismatch" -> 254
      [] status = "connector_exceptioned" -> 255

\* from_code without its entry for the OOM killer's code
FromCodeNoOom(code) ==
    CASE code = -9 -> "process_signal_sigkill"
      [] code = 247 -> "connector_validation_error"
      [] code = 248 -> "blocked_by_deletion"
      [] code = 249 -> "blocked_by_stop_signal"
      [] code = 250 -> "fence_not_found"
      [] code = 251 -> "fence_readiness_timeout"
      [] code = 252 -> "fence_mismatch"
      [] code = 253 -> "task_already_running"
      [] code = 254 -> "index_attempt_mismatch"
      [] code = 255 -> "connector_exceptioned"
      [] OTHER -> "undefined"

FromCode(code) ==
    CASE code = -9 -> "process_signal_sigkill"
      [] code = 137 -> "out_of_memory"
      [] code = 247 -> "connector_validation_error"
      [] code = 248 -> "blocked_by_deletion"
      [] code = 249 -> "blocked_by_stop_signal"
      [] code = 250 -> "fence_not_found"
      [] code = 251 -> "fence_readiness_timeout"
      [] code = 252 -> "fence_mismatch"
      [] code = 253 -> "task_already_running"
      [] code = 254 -> "index_attempt_mismatch"
      [] code = 255 -> "connector_exceptioned"
      [] OTHER -> "undefined"

\* the exit code a killed process leaves in a run that looks no further
KillCodes == {Code("process_signal_sigkill")}

(* ------------------------------- state --------------------------------- *)
VARIABLES
    cc,        \* connector_credential_pair rows: status, schedule
    att,       \* index_attempt rows
    limits,    \* what the run may use: attempt ids, task pickups, batches,
               \* events, pipeline results, ticks left, exit codes of a
               \* killed process, invocations, id reuse; whether the search
               \* settings the beat runs under are the current ones
    redis,     \* the KV store: per-fence keys, ACTIVE_FENCES, terminate keys
    beatLock,  \* check_indexing_beat_lock: the invocation holding the lease
    beat,      \* the check_for_indexing invocations
    task,      \* celery state of each attempt's doc-fetching task
    wd,        \* connector_indexing_proxy_task per attempt (the watchdog)
    ch,        \* docfetching_task per attempt (the spawned child)
    store,     \* document batch storage per attempt
    dt,        \* document_indexing_pipeline_task per attempt and batch
    events,    \* environment events so far: faults, signals, redeliveries
    hist       \* observations kept for the properties below

vars == <<cc, att, limits, redis, beatLock, beat, task, wd, ch, store, dt,
          events, hist>>

(* ------------------- the fence store (RedisConnectorIndex) ------------- *)
NoFence == [exists |-> FALSE, id |-> None, task |-> None, started |-> FALSE]

NoKeys ==
    [fence |-> NoFence,
     completion |-> None,
     watchdog |-> FALSE,
     active |-> FALSE,
     connector |-> None,
     generator_lock |-> None]

Fenced(r, p) == r.keys[p].fence.exists

Payload(r, p) == r.keys[p].fence

SetFence(r, p, payload) ==
    [r EXCEPT !.keys[p].fence = payload, !.active_fences = @ \cup {p}]

GetCompletion(r, p) == r.keys[p].completion

\* the completion write as a plain overwrite
SetGeneratorCompleteOverwrite(r, p, code) ==
    [r EXCEPT !.keys[p].completion = code]

\* the completion write that also drops the watchdog signal
SetGeneratorCompleteTouching(r, p, code) ==
    [r EXCEPT !.keys[p].completion = IF @ = None THEN code ELSE @,
              !.keys[p].watchdog = FALSE]

\* set_generator_complete: single assignment, later writes are ignored

SetGeneratorComplete(r, p, code) ==
    [r EXCEPT !.keys[p].completion = IF @ = None THEN code ELSE @]

SetWatchdog(r, p, on) == [r EXCEPT !.keys[p].watchdog = on]

\* a heartbeat check that never sees the supervisor
WatchdogSignaledNever(r, p) == FALSE

WatchdogSignaled(r, p) == r.keys[p].watchdog

SetActive(r, p) == [r EXCEPT !.keys[p].active = TRUE]

SetConnectorActive(r, p) == [r EXCEPT !.keys[p].connector = ConnectorTtl]

\* a heartbeat that reads as freshly renewed for ever
ConnectorActiveTtlFresh(r, p) == ConnectorTtl

\* redis TTL: the seconds left, negative when the key is absent
ConnectorActiveTtl(r, p) ==
    IF r.keys[p].connector = None THEN -2 ELSE r.keys[p].connector

Terminating(r, taskId) == taskId \in r.terminate

\* a reset that removes the per-fence keys and leaves the membership entry
ResetKeysOnly(r, p) == [r EXCEPT !.keys[p] = NoKeys]

\* reset(): all per-fence keys are removed and the fence is deregistered
\* from ACTIVE_FENCES in one step
Reset(r, p) == [r EXCEPT !.keys[p] = NoKeys, !.active_fences = @ \ {p}]

(* ------------------------------ database ------------------------------- *)
NoAttempt == [status |-> "NONE", pair |-> None]

MarkAttempt(a, id, status) ==
    IF a[id].status = "NONE" THEN a ELSE [a EXCEPT ![id].status = status]

\* a mark_attempt_failed whose write is lost
MarkAttemptFailedLost(a, id) == a

MarkAttemptFailed(a, id) == MarkAttempt(a, id, "FAILED")
MarkAttemptCanceled(a, id) == MarkAttempt(a, id, "CANCELED")
MarkAttemptSucceeded(a, id) == MarkAttempt(a, id, "SUCCESS")
MarkAttemptPartiallySucceeded(a, id) == MarkAttempt(a, id, "PARTIAL_SUCCESS")
MarkAttemptInProgress(a, id) == MarkAttempt(a, id, "IN_PROGRESS")

IsSuccessful(status) == status \in {"SUCCESS", "PARTIAL_SUCCESS"}

\* should_index: schedule, pauses and deletions; a cc-pair whose row is gone
\* ("NONE") is not among the pairs the beat fetches
ShouldIndex(c) == c.status \notin {"PAUSED", "DELETING", "NONE"} /\ c.due

\* get_unfenced_index_attempt_ids: non-terminal rows whose fence is absent
UnfencedAttemptIds(a, r) ==
    {id \in AttemptIds :
        /\ a[id].status \in NonTerminalStatuses
        /\ ~Fenced(r, a[id].pair)}


\* validate_indexing_fences: clear each fence whose owning task is neither
\* queued, reserved nor executing
RECURSIVE ResetAll(_, _)
ResetAll(r, ps) ==
    IF ps = {} THEN r
    ELSE LET p == Min(ps) IN ResetAll(Reset(r, p), ps \ {p})

OrphanedFences(r, t) ==
    {p \in r.active_fences :
        /\ Fenced(r, p)
        /\ Payload(r, p).task # None
        /\ t[Payload(r, p).task] \notin {"PENDING", "STARTED"}}

ValidateIndexingFences(r, t) == ResetAll(r, OrphanedFences(r, t))

(* ------------------------------- Init ---------------------------------- *)
BeatIdle ==
    [pc |-> "idle", todo |-> {}, keys |-> {}, cur |-> None,
     payload |-> NoFence, rejected |-> FALSE, lapsed |-> FALSE,
     reindex |-> FALSE]

WdNone ==
    [pc |-> "none", waits |-> 0, status |-> "undefined", exc |-> FALSE,
     exit_code |-> None, has_exit |-> FALSE, deadline |-> 0, ttl |-> 0]

ChNone ==
    [pc |-> "none", code |-> None, payload |-> NoFence, waited |-> 0,
     produced |-> 0, acquire |-> "none",
     wrote_started |-> FALSE, ran_entrypoint |-> FALSE]

StoreEmpty ==
    [extraction |-> FALSE, complete_batch_num |-> None,
     indexing |-> FALSE, batches_done |-> 0, total_failures |-> 0,
     net_doc_change |-> 0, batches |-> {}]

\* raised: how the last delivery that loaded the batch ended, "none" while
\* it runs and when it returned
\* incs, fails, docs: what the deliveries of the batch's task have passed to
\* _update_indexing_state so far
DtIdle ==
    [pc |-> "idle", queued |-> 0, sent |-> FALSE, incs |-> 0, fails |-> 0,
     docs |-> 0, raised |-> "none"]

HistInit ==
    [streak |-> 0, created |-> {}, prev_created |-> {}, prev_fenced |-> {},
     orphans |-> {}]

Start(lim) ==
    /\ cc = [p \in Pairs |->
                [status |-> "SCHEDULED", due |-> TRUE, trigger |-> "none"]]
    /\ att = [id \in AttemptIds |-> NoAttempt]
    /\ limits = lim
    /\ redis = [keys |-> [p \in Pairs |-> NoKeys],
                active_fences |-> {},
                batch_lock |-> [p \in Pairs |-> [b \in BatchNums |-> None]],
                terminate |-> {},
                delete_fenced |-> {},
                stop_fenced |-> {}]
    /\ beatLock = None
    /\ beat = [i \in Invocations |-> BeatIdle]
    /\ task = [id \in AttemptIds |-> "NONE"]
    /\ wd = [id \in AttemptIds |-> WdNone]
    /\ ch = [id \in AttemptIds |-> ChNone]
    /\ store = [id \in AttemptIds |-> StoreEmpty]
    /\ dt = [id \in AttemptIds |-> [b \in BatchNums |-> DtIdle]]
    /\ events = 0
    /\ hist = HistInit

Init ==
    Start([attempts |-> MaxAttempts, runs |-> SpecRuns,
           batches |-> SpecBatches, events |-> SpecEvents,
           ticks |-> Unbounded, results |-> PipelineResults,
           codes |-> KillCodes, beats |-> SoleBeat, recycle |-> FALSE,
           current |-> TRUE])

(* --------------------- check_for_indexing (the beat) ------------------- *)
\* a step of any worker other than the beat ends the "immediate succession"
Disturb == HistInit

\* the invocations of check_for_indexing that the scheduler runs
Running == {i \in Invocations : i <= limits.beats}

\* the invocations that are inside the phases 0-3
InPhases == {i \in Invocations : beat[i].pc # "idle"}

\* lock_beat.acquire(blocking=False) that takes the lock whatever it holds
AcquireAnyway(l) == TRUE

\* lock_beat.acquire(blocking=False) succeeds when nobody holds the lease
Acquire(l) == l = None

\* acquire the beat lock; phase 0 syncs the ACTIVE_FENCES lookup table
BeatStart(i) ==
    /\ i \in Running
    /\ beat[i].pc = "idle"
    /\ Acquire(beatLock)
    /\ limits.ticks # 0
    /\ limits' = IF limits.ticks > 0 THEN [limits EXCEPT !.ticks = @ - 1]
                 ELSE limits
    /\ beatLock' = i
    /\ \E sync \in BOOLEAN :
        redis' = IF sync
                 THEN [redis EXCEPT !.active_fences =
                          @ \cup {p \in Pairs : Fenced(redis, p)}]
                 ELSE redis
    /\ beat' = [beat EXCEPT ![i] =
                   [BeatIdle EXCEPT !.pc = "kickoff", !.todo = Pairs]]
    /\ hist' = IF InPhases # {} THEN Disturb
               ELSE [hist EXCEPT !.streak = IF @ < 2 THEN @ + 1 ELSE 2,
                                 !.created = {},
                                 !.orphans = UnfencedAttemptIds(att, redis)]
    /\ UNCHANGED <<cc, att, task, wd, ch, store, dt, events>>

\* an invocation that finds the beat lock taken returns None at once
BeatLocked(i) ==
    /\ i \in Running
    /\ beat[i].pc = "idle"
    /\ ~Acquire(beatLock)
    /\ beat' = [beat EXCEPT ![i].rejected = TRUE]
    /\ UNCHANGED <<cc, att, limits, redis, beatLock, task, wd, ch, store, dt, hist, events>>

\* lock_beat.reacquire() raises once the lease is lost: the tick is given
\* up, and the finally block finds the lock not owned and only logs
BeatLockLost(i) ==
    /\ beat[i].pc = "kickoff"
    /\ beatLock # i
    /\ beat' = [beat EXCEPT ![i] = BeatIdle]
    /\ UNCHANGED <<cc, att, limits, redis, beatLock, task, wd, ch, store, dt, hist, events>>

\* phase 1 with the fence check left out
KickoffSkipsUnfenced(p) == ~ShouldIndex(cc[p])

\* phase 1: a pair that is fenced, or that should_index declines
KickoffSkips(p) == Fenced(redis, p) \/ ~ShouldIndex(cc[p])

\* phase 1: a fenced pair, or one should_index declines, is skipped
BeatKickoffSkip(i) ==
    /\ beat[i].pc = "kickoff"
    /\ beatLock = i
    /\ beat[i].todo # {}
    /\ LET p == Min(beat[i].todo) IN
        /\ KickoffSkips(p)
        /\ beat' = [beat EXCEPT ![i].todo = @ \ {p}]
    /\ UNCHANGED <<cc, att, limits, redis, beatLock, task, wd, ch, store, dt, hist, events>>

\* a kick-off that leaves the indexing trigger where it is
KickoffTriggerKept(c, current) == c

\* the indexing trigger is checked and cleared only under the current search
\* settings: mark_ccpair_with_indexing_trigger(cc_pair.id, None)
KickoffTrigger(c, current) ==
    IF current /\ c.trigger # "none" THEN [c EXCEPT !.trigger = "none"] ELSE c

\* the reindex argument of try_creating_indexing_task
Reindex(c, current) == current /\ c.trigger = "REINDEX"

\* try_creating_indexing_task returned no attempt id
BeatKickoffFail(i) ==
    /\ beat[i].pc = "kickoff"
    /\ beatLock = i
    /\ beat[i].todo # {}
    /\ LET p == Min(beat[i].todo) IN
        /\ ~KickoffSkips(p)
        /\ cc' = [cc EXCEPT ![p] = KickoffTrigger(@, limits.current)]
        /\ beat' = [beat EXCEPT ![i].todo = @ \ {p},
                       ![i].reindex = Reindex(cc[p], limits.current)]
    /\ UNCHANGED <<att, limits, redis, beatLock, task, wd, ch, store, dt, hist, events>>

\* nothing runs for, waits for or refers to the attempt any more
Quiescent(id) ==
    /\ wd[id].pc \in {"none", "done"}
    /\ ch[id].pc \in {"none", "exited"}
    /\ task[id] \in READY_STATES
    /\ \A b \in BatchNums : dt[id][b].pc = "idle" /\ dt[id][b].queued = 0
    /\ \A p \in Pairs :
          /\ Payload(redis, p).id # id
          /\ redis.keys[p].generator_lock # id
          /\ \A b \in BatchNums : redis.batch_lock[p][b] # id
    /\ \A i \in Invocations : beat[i].payload.id # id
    /\ id \notin redis.terminate

\* the ids the database can still issue in this run: the unused ones and,
\* the ids of the program being unbounded, in a run with limits.recycle the
\* one of a finished attempt that is quiescent, whose row is then forgotten
FreeIds ==
    {id \in AttemptIds :
        /\ id <= limits.attempts
        /\ \/ att[id].status = "NONE"
           \/ /\ limits.recycle
              /\ att[id].status \in TerminalStatuses
              /\ Quiescent(id)}

\* a first payload that does not name the attempt either
NewFenceUnnamed(id) ==
    [exists |-> TRUE, id |-> None, task |-> None, started |-> FALSE]

\* the payload the fence is created with: the attempt id of the row just
\* inserted, no task id yet
NewFence(id) ==
    [exists |-> TRUE, id |-> id, task |-> None, started |-> FALSE]

\* try_creating_indexing_task: the attempt row, the fence without its task
\* id, and the queued doc-fetching task
BeatKickoffCreate(i) ==
    /\ beat[i].pc = "kickoff"
    /\ beatLock = i
    /\ beat[i].todo # {}
    /\ FreeIds # {}
    /\ LET p == Min(beat[i].todo)
           id == Min(FreeIds)
       IN
        /\ ~KickoffSkips(p)
        /\ att' = [att EXCEPT ![id] = [status |-> "NOT_STARTED", pair |-> p]]
        /\ redis' = SetFence(redis, p, NewFence(id))
        /\ task' = [task EXCEPT ![id] = "PENDING"]
        /\ cc' = [cc EXCEPT ![p] = KickoffTrigger(@, limits.current)]
        /\ beat' = [beat EXCEPT ![i].pc = "taskid", ![i].cur = p,
                       ![i].reindex = Reindex(cc[p], limits.current),
                       ![i].payload = [exists |-> TRUE, id |-> id,
                                       task |-> id, started |-> FALSE]]
        /\ wd' = [wd EXCEPT ![id] = WdNone]
        /\ ch' = [ch EXCEPT ![id] = ChNone]
        /\ store' = [store EXCEPT ![id] = StoreEmpty]
        /\ dt' = [dt EXCEPT ![id] = [b \in BatchNums |-> DtIdle]]
    /\ UNCHANGED <<limits, beatLock, hist, events>>

\* try_creating_indexing_task: the enqueued task id goes into the payload
BeatTaskId(i) ==
    /\ beat[i].pc = "taskid"
    /\ redis' = SetFence(redis, beat[i].cur, beat[i].payload)
    /\ beat' = [beat EXCEPT ![i].pc = "kickoff", ![i].todo = @ \ {beat[i].cur},
                   ![i].cur = None, ![i].payload = NoFence]
    /\ hist' = IF hist.streak = 0 THEN hist
               ELSE [hist EXCEPT !.created = @ \cup {beat[i].cur}]
    /\ UNCHANGED <<cc, att, limits, beatLock, task, wd, ch, store, dt, events>>

RECURSIVE MarkAllFailed(_, _)
MarkAllFailed(a, ids) ==
    IF ids = {} THEN a
    ELSE LET id == Min(ids) IN MarkAllFailed(MarkAttemptFailed(a, id), ids \ {id})

\* phase 2: unfenced attempts are failed
FailUnfenced(a, r) == MarkAllFailed(a, UnfencedAttemptIds(a, r))

\* phase 2: fail the unfenced attempts, validate the fences (once per
\* interval), then read ACTIVE_FENCES for phase 3
BeatValidate(i) ==
    /\ beat[i].pc = "kickoff"
    /\ beatLock = i
    /\ beat[i].todo = {}
    /\ att' = FailUnfenced(att, redis)
    /\ \E validate \in BOOLEAN :
        redis' = IF validate THEN ValidateIndexingFences(redis, task) ELSE redis
    /\ beat' = [beat EXCEPT ![i].pc = "finalize", ![i].keys = redis'.active_fences]
    /\ UNCHANGED <<cc, limits, beatLock, task, wd, ch, store, dt, hist, events>>

\* phase 3 is over: release the beat lock if it is still owned
BeatEnd(i) ==
    /\ beat[i].pc = "finalize"
    /\ beat[i].keys = {}
    /\ beatLock' = IF beatLock = i THEN None ELSE beatLock
    /\ beat' = [beat EXCEPT ![i] = BeatIdle]
    /\ hist' = IF hist.streak = 0 THEN hist
               ELSE [hist EXCEPT !.prev_created = hist.created,
                                 !.created = {},
                                 !.prev_fenced = {p \in Pairs : Fenced(redis, p)},
                                 !.orphans = {}]
    /\ UNCHANGED <<cc, att, limits, redis, task, wd, ch, store, dt, events>>

\* phase 3: a member of ACTIVE_FENCES whose key is gone is deregistered
BeatDeregister(i) ==
    /\ beat[i].pc = "finalize"
    /\ beat[i].keys # {}
    /\ LET k == Min(beat[i].keys) IN
        /\ ~Fenced(redis, k)
        /\ redis' = [redis EXCEPT !.active_fences = @ \ {k}]
        /\ beat' = [beat EXCEPT ![i].keys = @ \ {k}]
    /\ UNCHANGED <<cc, att, limits, beatLock, task, wd, ch, store, dt, hist, events>>

(* -------------------- monitor_ccpair_indexing_taskset ------------------ *)
\* a SCHEDULED cc-pair moves to INITIAL_INDEXING
PromoteScheduled(c) ==
    IF c.status = "SCHEDULED" THEN [c EXCEPT !.status = "INITIAL_INDEXING"] ELSE c

\* index_attempt_is_successful and status == SCHEDULED or status == INITIAL_INDEXING
PromoteActive(c, successful) ==
    IF (successful /\ c.status = "SCHEDULED") \/ c.status = "INITIAL_INDEXING"
    THEN [c EXCEPT !.status = "ACTIVE"]
    ELSE c

MonitorReturn(i) ==
    [beat EXCEPT ![i].pc = "finalize", ![i].keys = @ \ {beat[i].cur},
                 ![i].cur = None, ![i].payload = NoFence]

\* the monitor's first read of the completion marker
BeatMonitor(i) ==
    /\ beat[i].pc = "finalize"
    /\ beat[i].keys # {}
    /\ LET k == Min(beat[i].keys)
           payload == Payload(redis, k)
           promoted == PromoteScheduled(cc[k])
           done == [beat EXCEPT ![i].keys = @ \ {k}]
       IN
        /\ Fenced(redis, k)
        /\ IF payload.id = None \/ payload.task = None
           THEN \* the task is still setting up
                /\ cc' = [cc EXCEPT ![k] = promoted]
                /\ beat' = done
                /\ UNCHANGED <<att, redis>>
           ELSE IF GetCompletion(redis, k) = None
           THEN \* inner signal not set: look at the task state next
                /\ cc' = [cc EXCEPT ![k] = promoted]
                /\ beat' = [beat EXCEPT ![i].pc = "mon_task", ![i].cur = k,
                               ![i].payload = payload]
                /\ UNCHANGED <<att, redis>>
           ELSE IF WatchdogSignaled(redis, k)
           THEN \* delay finalization until the watchdog has exited
                /\ cc' = [cc EXCEPT ![k] = promoted]
                /\ beat' = done
                /\ UNCHANGED <<att, redis>>
           ELSE /\ redis' = Reset(redis, k)
                /\ cc' = [cc EXCEPT ![k] =
                            PromoteActive(promoted, IsSuccessful(att[payload.id].status))]
                /\ beat' = done
                /\ UNCHANGED att
    /\ UNCHANGED <<limits, beatLock, task, wd, ch, store, dt, hist, events>>

\* the monitor reads the task's state (the outer signal)
BeatMonitorTask(i) ==
    /\ beat[i].pc = "mon_task"
    /\ beat' = IF task[beat[i].payload.task] \in READY_STATES
               THEN [beat EXCEPT ![i].pc = "mon_recheck"]
               ELSE MonitorReturn(i)
    /\ UNCHANGED <<cc, att, limits, redis, beatLock, task, wd, ch, store, dt, hist, events>>

\* a monitor that goes by its first read of the completion marker alone
BeatMonitorRecheckBlind(i) ==
    /\ beat[i].pc = "mon_recheck"
    /\ att' = IF att[beat[i].payload.id].status \notin {"CANCELED", "FAILED"}
              THEN MarkAttemptFailed(att, beat[i].payload.id)
              ELSE att
    /\ redis' = Reset(redis, beat[i].cur)
    /\ beat' = MonitorReturn(i)
    /\ UNCHANGED <<cc, limits, beatLock, task, wd, ch, store, dt, hist, events>>

\* the monitor's second read of the completion marker: still unset with the
\* task finished means the worker crashed
BeatMonitorRecheck(i) ==
    /\ beat[i].pc = "mon_recheck"
    /\ IF GetCompletion(redis, beat[i].cur) = None
       THEN /\ att' = IF att[beat[i].payload.id].status \notin {"CANCELED", "FAILED"}
                      THEN MarkAttemptFailed(att, beat[i].payload.id)
                      ELSE att
            /\ redis' = Reset(redis, beat[i].cur)
       ELSE UNCHANGED <<att, redis>>
    /\ beat' = MonitorReturn(i)
    /\ UNCHANGED <<cc, limits, beatLock, task, wd, ch, store, dt, hist, events>>

\* a tick that keeps its lease from the acquire to the release
BeatAlone ==
    \E i \in Invocations :
        \/ BeatStart(i) \/ BeatKickoffSkip(i) \/ BeatKickoffFail(i)
        \/ BeatKickoffCreate(i) \/ BeatTaskId(i) \/ BeatValidate(i) \/ BeatEnd(i)
        \/ BeatMonitor(i) \/ BeatMonitorTask(i) \/ BeatMonitorRecheck(i)

\* the keys of ACTIVE_FENCES that went away under the monitor
BeatDeregisters == \E i \in Invocations : BeatDeregister(i)

\* the invocation whose lease ran out gives the tick up
BeatGivesUp == \E i \in Invocations : BeatLockLost(i)

\* an invocation that meets the lock taken by another one
BeatRejected == \E i \in Invocations : BeatLocked(i)

Beat ==
    \/ BeatAlone
    \/ BeatDeregisters
    \/ BeatGivesUp
    \/ BeatRejected

(* ------------- connector_indexing_proxy_task (the watchdog) ------------ *)
PairOf(a) == att[a].pair

ChildExited(a) == ch[a].pc = "exited"
ChildAlive(a) == ch[a].pc \notin {"none", "starting", "exited"}

\* SimpleJob.status of a finished job
JobStatus(a) == IF ch[a].code # 0 THEN "error" ELSE "ok"

\* an exit path that leaves the child running
CancelSkipped(c) == c

\* job.cancel(): a hard kill of the child, if it still runs
Cancel(c) ==
    IF c.pc \in {"none", "exited"} THEN c
    ELSE [c EXCEPT !.pc = "exited", !.code = -9, !.payload = NoFence,
                   !.waited = 0, !.produced = 0]

\* the worker pool still has a slot for one more doc-fetching task
RunLimit ==
    Cardinality({a \in AttemptIds : task[a] \notin {"NONE", "PENDING"}})
        < limits.runs

\* the worker takes the task and client.submit spawns the child
WdSpawn(a) ==
    /\ RunLimit
    /\ task[a] = "PENDING"
    /\ wd[a].pc = "none"
    /\ task' = [task EXCEPT ![a] = "STARTED"]
    /\ wd' = [wd EXCEPT ![a].pc = "wait"]
    /\ ch' = [ch EXCEPT ![a].pc = "starting"]
    /\ hist' = Disturb
    /\ UNCHANGED <<cc, att, limits, redis, beatLock, beat, store, dt, events>>

\* client.submit returned no job: SPAWN_FAILED, the task returns
WdSpawnFailed(a) ==
    /\ events < limits.events
    /\ events' = events + 1
    /\ RunLimit
    /\ task[a] = "PENDING"
    /\ wd[a].pc = "none"
    /\ task' = [task EXCEPT ![a] = "SUCCESS"]
    /\ wd' = [wd EXCEPT ![a].pc = "done", ![a].status = "spawn_failed"]
    /\ hist' = Disturb
    /\ UNCHANGED <<cc, att, limits, redis, beatLock, beat, ch, store, dt>>

\* one round of the wait for the process to leave the starting state
WdWaitAlive(a) ==
    /\ wd[a].pc = "wait"
    /\ IF wd[a].waits > SpawnWaitLimit
       THEN \* SPAWN_NOT_ALIVE: job.release() and return
            /\ wd' = [wd EXCEPT ![a].pc = "done", ![a].waits = 0,
                         ![a].status = "spawn_not_alive"]
            /\ task' = [task EXCEPT ![a] = "SUCCESS"]
            /\ UNCHANGED redis
       ELSE IF ChildAlive(a) \/ ChildExited(a)
       THEN IF att[a].status = "NONE"
            THEN \* RuntimeError("Index attempt not found")
                 /\ wd' = [wd EXCEPT ![a].pc = "exit", ![a].waits = 0,
                              ![a].status = "watchdog_exceptioned",
                              ![a].exc = TRUE]
                 /\ UNCHANGED <<task, redis>>
            ELSE \* renew active, prime connector_active, enter the loop
                 /\ redis' = SetConnectorActive(SetActive(redis, PairOf(a)), PairOf(a))
                 /\ wd' = [wd EXCEPT ![a].pc = "loop", ![a].waits = 0,
                              ![a].deadline = 0]
                 /\ UNCHANGED task
       ELSE /\ wd' = [wd EXCEPT ![a].waits = @ + 1]
            /\ UNCHANGED <<task, redis>>
    /\ hist' = Disturb
    /\ UNCHANGED <<cc, att, limits, beatLock, beat, ch, store, dt, events>>

\* a classification that goes by the exit code alone
ProcessJobResultByCode(w, a, r) ==
    IF JobStatus(a) # "error"
    THEN [w EXCEPT !.status = "succeeded", !.exit_code = ch[a].code,
                   !.has_exit = TRUE, !.exc = FALSE]
    ELSE [w EXCEPT !.status = FromCode(ch[a].code), !.exit_code = ch[a].code,
                   !.has_exit = TRUE, !.exc = TRUE]

\* process_job_result: the finished child's status and exception string
ProcessJobResult(w, a, r) ==
    IF JobStatus(a) # "error"
    THEN [w EXCEPT !.status = "succeeded", !.exit_code = ch[a].code,
                   !.has_exit = TRUE, !.exc = FALSE]
    ELSE IF GetCompletion(r, PairOf(a)) = HTTP_OK
    THEN [w EXCEPT !.status = "succeeded", !.exit_code = ch[a].code,
                   !.has_exit = TRUE, !.exc = FALSE]
    ELSE [w EXCEPT !.status = FromCode(ch[a].code), !.exit_code = ch[a].code,
                   !.has_exit = TRUE, !.exc = TRUE]

\* now >= last_activity_ttl_observed + last_activity_ttl
ActivityTimeoutLoose(w) == 0 >= w.deadline

\* now > last_activity_ttl_observed + last_activity_ttl, where deadline is
\* last_activity_ttl_observed + last_activity_ttl - now
ActivityTimeout(w) == 0 > w.deadline

\* an iteration that looks at the termination key and the connector's TTL
\* before it looks at the job
WdPollSignalFirst(a) ==
    /\ wd[a].pc = "loop"
    /\ LET p == PairOf(a)
           r1 == SetActive(SetWatchdog(redis, p, TRUE), p)
           ttl == ConnectorActiveTtl(r1, p)
           w == wd[a]
       IN
        /\ redis' = r1
        /\ wd' = [wd EXCEPT ![a] =
              IF Terminating(r1, a)
              THEN [w EXCEPT !.pc = "exit", !.status = "terminated_by_signal"]
              ELSE IF ttl < 0 /\ ActivityTimeout(w)
              THEN [w EXCEPT !.pc = "exit", !.ttl = ttl,
                             !.status = "terminated_by_activity_timeout"]
              ELSE IF ChildExited(a)
              THEN [ProcessJobResult(w, a, r1) EXCEPT !.pc = "exit"]
              ELSE IF ttl < 0 THEN w
              ELSE [w EXCEPT !.deadline = ttl]]
    /\ hist' = Disturb
    /\ UNCHANGED <<cc, att, limits, beatLock, beat, task, ch, store, dt, events>>

\* one iteration of the supervisor loop, after its sleep(5)
WdPoll(a) ==
    /\ wd[a].pc = "loop"
    /\ LET p == PairOf(a)
           r1 == SetActive(SetWatchdog(redis, p, TRUE), p)
           ttl == ConnectorActiveTtl(r1, p)
           w == wd[a]
       IN
        /\ redis' = r1
        /\ wd' = [wd EXCEPT ![a] =
              IF ChildExited(a)
              THEN [ProcessJobResult(w, a, r1) EXCEPT !.pc = "exit"]
              ELSE IF Terminating(r1, a)
              THEN [w EXCEPT !.pc = "exit", !.status = "terminated_by_signal"]
              ELSE IF ttl < 0
              THEN IF ActivityTimeout(w)
                   THEN [w EXCEPT !.pc = "exit", !.ttl = ttl,
                                  !.status = "terminated_by_activity_timeout"]
                   ELSE w
              ELSE [w EXCEPT !.deadline = ttl]]
    /\ hist' = Disturb
    /\ UNCHANGED <<cc, att, limits, beatLock, beat, task, ch, store, dt, events>>

\* an exception inside the loop body, caught by the task's except block:
\* WATCHDOG_EXCEPTIONED with the traceback as exception string
WdLoopRaises(a) ==
    /\ events < limits.events
    /\ events' = events + 1
    /\ wd[a].pc = "loop"
    /\ wd' = [wd EXCEPT ![a].pc = "exit", ![a].status = "watchdog_exceptioned",
                        ![a].exc = TRUE]
    /\ hist' = Disturb
    /\ UNCHANGED <<cc, att, limits, redis, beatLock, beat, task, ch, store, dt>>

\* exit and reporting that raises on a captured exception string before it
\* clears the watchdog signal
WdExitRaisesFirst(a, dbOk) ==
    /\ wd[a].pc = "exit"
    /\ att' = IF ~dbOk THEN att
              ELSE IF wd[a].exc \/ wd[a].status = "terminated_by_activity_timeout"
              THEN MarkAttemptFailed(att, a)
              ELSE IF wd[a].status = "terminated_by_signal"
              THEN MarkAttemptCanceled(att, a)
              ELSE att
    /\ task' = [task EXCEPT ![a] = IF wd[a].exc THEN "FAILURE" ELSE "SUCCESS"]
    /\ ch' = IF /\ ~wd[a].exc
                /\ wd[a].status \in {"terminated_by_signal",
                                     "terminated_by_activity_timeout"}
             THEN [ch EXCEPT ![a] = Cancel(@)]
             ELSE ch
    /\ redis' = IF wd[a].exc THEN redis ELSE SetWatchdog(redis, PairOf(a), FALSE)
    /\ wd' = [wd EXCEPT ![a] = [WdNone EXCEPT !.pc = "done",
                                   !.status = wd[a].status, !.exc = wd[a].exc]]
    /\ hist' = Disturb
    /\ UNCHANGED <<cc, limits, beatLock, beat, store, dt>>

\* exit and reporting where a database error leaves the task at once: the
\* job is not cancelled and the watchdog signal stays
WdExitEscapes(a, dbOk) ==
    /\ wd[a].pc = "exit"
    /\ att' = IF ~dbOk THEN att
              ELSE IF wd[a].exc \/ wd[a].status = "terminated_by_activity_timeout"
              THEN MarkAttemptFailed(att, a)
              ELSE IF wd[a].status = "terminated_by_signal"
              THEN MarkAttemptCanceled(att, a)
              ELSE att
    /\ task' = [task EXCEPT ![a] = IF dbOk /\ ~wd[a].exc THEN "SUCCESS" ELSE "FAILURE"]
    /\ ch' = IF /\ dbOk
                /\ ~wd[a].exc
                /\ wd[a].status \in {"terminated_by_signal",
                                     "terminated_by_activity_timeout"}
             THEN [ch EXCEPT ![a] = Cancel(@)]
             ELSE ch
    /\ redis' = IF dbOk THEN SetWatchdog(redis, PairOf(a), FALSE) ELSE redis
    /\ wd' = [wd EXCEPT ![a] = [WdNone EXCEPT !.pc = "done",
                                   !.status = wd[a].status, !.exc = wd[a].exc]]
    /\ hist' = Disturb
    /\ UNCHANGED <<cc, limits, beatLock, beat, store, dt>>

\* exit and reporting: mark the attempt (a transient database error is
\* logged and tolerated), cancel the job, clear the watchdog signal
WdExit(a, dbOk) ==
    /\ wd[a].pc = "exit"
    /\ IF wd[a].exc
        THEN /\ att' = IF dbOk THEN MarkAttemptFailed(att, a) ELSE att
             /\ task' = [task EXCEPT ![a] = "FAILURE"]
             /\ UNCHANGED ch
        ELSE IF wd[a].status = "terminated_by_signal"
        THEN /\ att' = IF dbOk THEN MarkAttemptCanceled(att, a) ELSE att
             /\ ch' = [ch EXCEPT ![a] = Cancel(@)]
             /\ task' = [task EXCEPT ![a] = "SUCCESS"]
        ELSE IF wd[a].status = "terminated_by_activity_timeout"
        THEN /\ att' = IF dbOk THEN MarkAttemptFailed(att, a) ELSE att
             /\ ch' = [ch EXCEPT ![a] = Cancel(@)]
             /\ task' = [task EXCEPT ![a] = "SUCCESS"]
        ELSE /\ task' = [task EXCEPT ![a] = "SUCCESS"]
             /\ UNCHANGED <<att, ch>>
    /\ redis' = SetWatchdog(redis, PairOf(a), FALSE)
    /\ wd' = [wd EXCEPT ![a] = [WdNone EXCEPT !.pc = "done",
                                   !.status = wd[a].status, !.exc = wd[a].exc]]
    /\ hist' = Disturb
    /\ UNCHANGED <<cc, limits, beatLock, beat, store, dt>>

\* exit and reporting with the database reachable
WdExitMarked(a) ==
    /\ WdExit(a, TRUE)
    /\ UNCHANGED events

\* exit and reporting while the database raises a transient error
WdExitDbError(a) ==
    /\ events < limits.events
    /\ wd[a].status \in {"terminated_by_signal", "terminated_by_activity_timeout"}
          \/ wd[a].exc
    /\ WdExit(a, FALSE)
    /\ events' = events + 1

\* time passes: the heartbeat leases and the supervisors' expected expiry
\* run down
Tick ==
    /\ \E a \in AttemptIds : wd[a].pc = "loop" /\ wd[a].deadline >= 0
    /\ wd' = [a \in AttemptIds |->
                IF wd[a].pc = "loop" /\ wd[a].deadline >= 0
                THEN [wd[a] EXCEPT !.deadline = @ - 1]
                ELSE wd[a]]
    /\ redis' = [redis EXCEPT !.keys =
                    [p \in Pairs |->
                        [redis.keys[p] EXCEPT !.connector =
                            IF @ = None THEN None ELSE @ - 1]]]
    /\ hist' = Disturb
    /\ UNCHANGED <<cc, att, limits, beatLock, beat, task, ch, store, dt, events>>

Watchdog(a) ==
    \/ WdSpawn(a)
    \/ WdSpawnFailed(a)
    \/ WdWaitAlive(a)
    \/ WdPoll(a)
    \/ WdExitMarked(a)
    \/ WdExitDbError(a)

(* --------------------- docfetching_task (the child) -------------------- *)
\* the process ends with the given exit code
Exit(c, code) ==
    [c EXCEPT !.pc = "exited", !.code = code, !.payload = NoFence,
              !.waited = 0, !.produced = 0]

\* lock.owned() / lock.release() in the child's finally block
ReleaseGeneratorLock(r, a) ==
    IF r.keys[PairOf(a)].generator_lock = a
    THEN [r EXCEPT !.keys[PairOf(a)].generator_lock = None]
    ELSE r

\* a pre-flight that looks at the stop fence only
PreflightStopOnly(c, r, p) ==
    IF p \in r.stop_fenced
    THEN Exit(c, Code("blocked_by_stop_signal"))
    ELSE [c EXCEPT !.pc = "waitfence"]

\* a pre-flight that looks at the stop fence before the deletion fence
PreflightStopFirst(c, r, p) ==
    IF p \in r.stop_fenced
    THEN Exit(c, Code("blocked_by_stop_signal"))
    ELSE IF p \in r.delete_fenced
    THEN Exit(c, Code("blocked_by_deletion"))
    ELSE [c EXCEPT !.pc = "waitfence"]

\* the pre-flight: a cc-pair fenced for deletion or for stop ends the child
\* with a coded exit
Preflight(c, r, p) ==
    IF p \in r.delete_fenced
    THEN Exit(c, Code("blocked_by_deletion"))
    ELSE IF p \in r.stop_fenced
    THEN Exit(c, Code("blocked_by_stop_signal"))
    ELSE [c EXCEPT !.pc = "waitfence"]

\* the deletion and stop pre-flight checks
ChStart(a) ==
    /\ ch[a].pc = "starting"
    /\ ch' = [ch EXCEPT ![a] = Preflight(@, redis, PairOf(a))]
    /\ hist' = Disturb
    /\ UNCHANGED <<cc, att, limits, redis, beatLock, beat, task, wd, store, dt, events>>

\* a wait for the fence that goes on as soon as any fence exists
ChFenceCheckHasty(a) ==
    /\ ch[a].pc = "waitfence"
    /\ LET p == PairOf(a)
           payload == Payload(redis, p)
       IN ch' = [ch EXCEPT ![a] =
            IF @.waited > FenceWaitPolls
            THEN Exit(@, Code("fence_readiness_timeout"))
            ELSE IF ~Fenced(redis, p)
            THEN Exit(@, Code("fence_not_found"))
            ELSE [@ EXCEPT !.pc = "ready", !.payload = payload, !.waited = 0]]
    /\ hist' = Disturb
    /\ UNCHANGED <<cc, att, limits, redis, beatLock, beat, task, wd, store, dt, events>>

\* one round of the wait for the fence to be ready
ChFenceCheck(a) ==
    /\ ch[a].pc = "waitfence"
    /\ LET p == PairOf(a)
           payload == Payload(redis, p)
       IN ch' = [ch EXCEPT ![a] =
            IF @.waited > FenceWaitPolls
            THEN Exit(@, Code("fence_readiness_timeout"))
            ELSE IF ~Fenced(redis, p)
            THEN Exit(@, Code("fence_not_found"))
            ELSE IF payload.id = None \/ payload.task = None
            THEN [@ EXCEPT !.waited = @ + 1]
            ELSE IF payload.id # a
            THEN Exit(@, Code("fence_mismatch"))
            ELSE [@ EXCEPT !.pc = "ready", !.payload = payload, !.waited = 0]]
    /\ hist' = Disturb
    /\ UNCHANGED <<cc, att, limits, redis, beatLock, beat, task, wd, store, dt, events>>

\* the non-blocking acquire failed: TASK_ALREADY_RUNNING, running on anyway
AcquireFailedRunsOn(c) == [c EXCEPT !.pc = "locked", !.acquire = "fail"]

\* the non-blocking acquire failed: TASK_ALREADY_RUNNING
AcquireFailed(c) ==
    [Exit(c, Code("task_already_running")) EXCEPT !.acquire = "fail"]

\* acquire the generator lock without blocking, then write `started` into
\* the fence
ChAcquire(a) ==
    /\ ch[a].pc = "ready"
    /\ LET p == PairOf(a) IN
        IF redis.keys[p].generator_lock # None
        THEN /\ ch' = [ch EXCEPT ![a] = AcquireFailed(@)]
             /\ UNCHANGED redis
        ELSE LET payload == [ch[a].payload EXCEPT !.started = TRUE] IN
             /\ redis' = SetFence([redis EXCEPT !.keys[p].generator_lock = a],
                                  p, payload)
             /\ ch' = [ch EXCEPT ![a].pc = "locked", ![a].acquire = "ok",
                          ![a].payload = NoFence, ![a].wrote_started = TRUE]
    /\ hist' = Disturb
    /\ UNCHANGED <<cc, att, limits, beatLock, beat, task, wd, store, dt, events>>

\* the acquire succeeded and set_fence raises while writing `started`: the
\* two statements stand before the try block, so the exception leaves the
\* task without passing the finally block that releases the lock
ChSetFenceRaises(a) ==
    /\ events < limits.events
    /\ events' = events + 1
    /\ ch[a].pc = "ready"
    /\ redis.keys[PairOf(a)].generator_lock = None
    /\ redis' = [redis EXCEPT !.keys[PairOf(a)].generator_lock = a]
    /\ ch' = [ch EXCEPT ![a] =
                [Exit(@, Code("connector_exceptioned")) EXCEPT !.acquire = "ok"]]
    /\ hist' = Disturb
    /\ UNCHANGED <<cc, att, limits, beatLock, beat, task, wd, store, dt>>

\* the database preconditions, then run_indexing_entrypoint starts: the
\* attempt goes IN_PROGRESS and the extraction state is stored
ChEnter(a) ==
    /\ ch[a].pc = "locked"
    /\ IF att[a].status = "NONE" \/ cc[PairOf(a)].status = "NONE"
       THEN /\ ch' = [ch EXCEPT ![a] = Exit(@, Code("index_attempt_mismatch"))]
            /\ redis' = ReleaseGeneratorLock(redis, a)
            /\ UNCHANGED <<att, store>>
       ELSE /\ ch' = [ch EXCEPT ![a].pc = "fetching", ![a].ran_entrypoint = TRUE]
            /\ att' = MarkAttemptInProgress(att, a)
            /\ store' = [store EXCEPT ![a].extraction = TRUE]
            /\ UNCHANGED redis
    /\ hist' = Disturb
    /\ UNCHANGED <<cc, limits, beatLock, beat, task, wd, dt, events>>

\* the fetch loop stores one batch, enqueues its doc-processing task and the
\* callback renews the heartbeats and counts progress
ChBatch(a) ==
    /\ ch[a].pc = "fetching"
    /\ ch[a].produced < limits.batches
    /\ LET b == ch[a].produced + 1
           p == PairOf(a)
       IN
        /\ store' = [store EXCEPT ![a].batches = @ \cup {b}]
        /\ dt' = [dt EXCEPT ![a][b].queued = @ + 1, ![a][b].sent = TRUE]
        /\ redis' = SetConnectorActive(SetActive(redis, p), p)
        /\ ch' = [ch EXCEPT ![a].produced = b]
    /\ hist' = Disturb
    /\ UNCHANGED <<cc, att, limits, beatLock, beat, task, wd, events>>

\* the fetch is over: doc_extraction_complete_batch_num is recorded
ChExtractDone(a) ==
    /\ ch[a].pc = "fetching"
    /\ ch[a].produced >= 1
    /\ store' = [store EXCEPT ![a].complete_batch_num = ch[a].produced]
    /\ ch' = [ch EXCEPT ![a].pc = "extracted"]
    /\ hist' = Disturb
    /\ UNCHANGED <<cc, att, limits, redis, beatLock, beat, task, wd, dt, events>>

\* an exception path that writes the completion marker on its way out
ChRaiseMarking(a) ==
    /\ events < limits.events
    /\ events' = events + 1
    /\ ch[a].pc = "fetching"
    /\ \E status \in {"connector_validation_error", "connector_exceptioned"} :
        ch' = [ch EXCEPT ![a] = Exit(@, Code(status))]
    /\ redis' = ReleaseGeneratorLock(
                    SetGeneratorComplete(redis, PairOf(a), HTTP_OK), a)
    /\ hist' = Disturb
    /\ UNCHANGED <<cc, att, limits, beatLock, beat, task, wd, store, dt>>

\* the entrypoint raised: ConnectorValidationError exits 247, any other
\* exception 255; the finally block releases the lock if owned
ChRaise(a) ==
    /\ events < limits.events
    /\ events' = events + 1
    /\ ch[a].pc = "fetching"
    /\ \E status \in {"connector_validation_error", "connector_exceptioned"} :
        ch' = [ch EXCEPT ![a] = Exit(@, Code(status))]
    /\ redis' = ReleaseGeneratorLock(redis, a)
    /\ hist' = Disturb
    /\ UNCHANGED <<cc, att, limits, beatLock, beat, task, wd, store, dt>>

\* set the completion marker to OK, release the lock if owned, exit 0
ChComplete(a) ==
    /\ ch[a].pc = "extracted"
    /\ redis' = ReleaseGeneratorLock(
                    SetGeneratorComplete(redis, PairOf(a), HTTP_OK), a)
    /\ ch' = [ch EXCEPT ![a] = Exit(@, 0)]
    /\ hist' = Disturb
    /\ UNCHANGED <<cc, att, limits, beatLock, beat, task, wd, store, dt, events>>

\* the fetch returned and the marker is written, but the process ends with
\* a non-zero exit code (the spawn-method edge case process_job_result
\* works around)
ChCompleteBadExit(a) ==
    /\ events < limits.events
    /\ events' = events + 1
    /\ ch[a].pc = "extracted"
    /\ redis' = ReleaseGeneratorLock(
                    SetGeneratorComplete(redis, PairOf(a), HTTP_OK), a)
    /\ \E code \in limits.codes \ {0} : ch' = [ch EXCEPT ![a] = Exit(@, code)]
    /\ hist' = Disturb
    /\ UNCHANGED <<cc, att, limits, beatLock, beat, task, wd, store, dt>>

\* the process is ended from outside (SIGKILL, the OOM killer, a failing
\* interpreter): it leaves the exit code and nothing is cleaned up
ChKilled(a) ==
    /\ events < limits.events
    /\ events' = events + 1
    /\ ch[a].pc \in {"waitfence", "ready", "locked", "fetching", "extracted"}
    /\ \E code \in limits.codes : ch' = [ch EXCEPT ![a] = Exit(@, code)]
    /\ hist' = Disturb
    /\ UNCHANGED <<cc, att, limits, redis, beatLock, beat, task, wd, store, dt>>

Child(a) ==
    \/ ChStart(a)
    \/ ChFenceCheck(a)
    \/ ChAcquire(a)
    \/ ChEnter(a)
    \/ ChBatch(a)
    \/ ChExtractDone(a)
    \/ ChRaise(a)
    \/ ChComplete(a)
    \/ ChKilled(a)

(* ------------------ document_indexing_pipeline_task -------------------- *)
\* _check_failure_threshold: more than 3 failures and a ratio above 10%
\* the threshold with "3 or more" in place of "more than 3"
CheckFailureThresholdFrom(total_failures, document_count) ==
    /\ total_failures >= FAILURE_THRESHOLD
    /\ total_failures * 100 >
         FAILURE_RATIO_PERCENT * (IF document_count = 0 THEN 1 ELSE document_count)

\* _check_failure_threshold: more than 3 failures and a ratio above 10%
CheckFailureThreshold(total_failures, document_count) ==
    /\ total_failures > FAILURE_THRESHOLD
    /\ total_failures * 100 >
         FAILURE_RATIO_PERCENT * (IF document_count = 0 THEN 1 ELSE document_count)

\* an initialization that stores a zeroed DocIndexingContext every time
InitializeIndexingStateAnew(s) ==
    [s EXCEPT !.indexing = TRUE, !.batches_done = 0,
              !.total_failures = 0, !.net_doc_change = 0]

\* _initialize_indexing_state: a zeroed DocIndexingContext unless one exists
InitializeIndexingState(s) ==
    IF s.indexing THEN s
    ELSE [s EXCEPT !.indexing = TRUE, !.batches_done = 0,
                   !.total_failures = 0, !.net_doc_change = 0]

\* _update_indexing_state
UpdateIndexingState(s, failures, new_docs) ==
    [s EXCEPT !.batches_done = @ + 1,
              !.total_failures = @ + failures,
              !.net_doc_change = @ + new_docs]

\* a finally block that leaves the per-batch lock held
ReleaseBatchLockKept(r, a, b) == r

\* per_batch_lock.owned() / release() in the finally block
ReleaseBatchLock(r, a, b) ==
    IF r.batch_lock[PairOf(a)][b] = a
    THEN [r EXCEPT !.batch_lock[PairOf(a)][b] = None]
    ELSE r

\* the except block writing its 500 over whatever the marker holds
DocFailedOverwrite(r, a) ==
    IF att[a].status = "NONE" THEN r
    ELSE SetGeneratorCompleteOverwrite(r, PairOf(a), HTTP_INTERNAL_SERVER_ERROR)

\* an except block that re-raises without writing the marker
DocFailedSilent(r, a) == r

\* the except block: completion 500 to unblock the watchdog, then re-raise
DocFailed(r, a) ==
    IF att[a].status = "NONE" THEN r
    ELSE SetGeneratorComplete(r, PairOf(a), HTTP_INTERNAL_SERVER_ERROR)

\* a delivery whose batch is no longer in storage logs and returns
DtMissing(a, b) ==
    /\ dt[a][b].queued > 0
    /\ b \notin store[a].batches
    /\ dt' = [dt EXCEPT ![a][b].queued = @ - 1]
    /\ hist' = Disturb
    /\ UNCHANGED <<cc, att, limits, redis, beatLock, beat, task, wd, ch, store, events>>

\* a delivery that fails the non-blocking acquire raises 253 inside the
\* try block, so the except block runs; the lock it does not own stays
DtRejected(a, b) ==
    /\ dt[a][b].queued > 0
    /\ b \in store[a].batches
    /\ redis.batch_lock[PairOf(a)][b] # None
    /\ dt' = [dt EXCEPT ![a][b].queued = @ - 1]
    /\ redis' = DocFailed(redis, a)
    /\ hist' = Disturb
    /\ UNCHANGED <<cc, att, limits, beatLock, beat, task, wd, ch, store, events>>

\* a delivery loads the batch, takes the per-batch lock and makes sure the
\* indexing state exists
DtStart(a, b) ==
    /\ dt[a][b].queued > 0
    /\ dt[a][b].pc = "idle"
    /\ b \in store[a].batches
    /\ redis.batch_lock[PairOf(a)][b] = None
    /\ dt' = [dt EXCEPT ![a][b].queued = @ - 1, ![a][b].pc = "running",
                         ![a][b].raised = "none"]
    /\ redis' = [redis EXCEPT !.batch_lock[PairOf(a)][b] = a]
    /\ store' = [store EXCEPT ![a] = InitializeIndexingState(@)]
    /\ hist' = Disturb
    /\ UNCHANGED <<cc, att, limits, beatLock, beat, task, wd, ch, events>>

\* the pipeline raised
DtPipelineRaise(a, b) ==
    /\ events < limits.events
    /\ events' = events + 1
    /\ dt[a][b].pc = "running"
    /\ dt' = [dt EXCEPT ![a][b].pc = "idle", ![a][b].raised = "pipeline"]
    /\ redis' = ReleaseBatchLock(DocFailed(redis, a), a, b)
    /\ hist' = Disturb
    /\ UNCHANGED <<cc, att, limits, beatLock, beat, task, wd, ch, store>>

\* the pipeline returned: the shared state is updated, then the failure
\* threshold is evaluated on the updated totals
DtUpdate(a, b) ==
    /\ dt[a][b].pc = "running"
    /\ \E res \in limits.results :
        LET s == UpdateIndexingState(store[a], res[1], res[2]) IN
        IF ~store[a].indexing
        THEN \* ValueError("No indexing state found")
             /\ dt' = [dt EXCEPT ![a][b].pc = "idle", ![a][b].raised = "state"]
             /\ redis' = ReleaseBatchLock(DocFailed(redis, a), a, b)
             /\ UNCHANGED store
        ELSE /\ store' = [store EXCEPT ![a] = s]
             /\ IF res[1] > 0
                   /\ CheckFailureThreshold(s.total_failures, s.net_doc_change)
                THEN \* the last failure's exception if it carries one,
                     \* otherwise a RuntimeError
                     /\ \E exception \in BOOLEAN :
                           dt' = [dt EXCEPT ![a][b].pc = "idle",
                                            ![a][b].incs = @ + 1,
                                            ![a][b].fails = @ + res[1],
                                            ![a][b].docs = @ + res[2],
                                            ![a][b].raised =
                                                IF exception THEN "last_failure"
                                                ELSE "runtime_error"]
                     /\ redis' = ReleaseBatchLock(DocFailed(redis, a), a, b)
                ELSE /\ dt' = [dt EXCEPT ![a][b].pc = "updated",
                                         ![a][b].incs = @ + 1,
                                         ![a][b].fails = @ + res[1],
                                         ![a][b].docs = @ + res[2]]
                     /\ UNCHANGED redis
    /\ hist' = Disturb
    /\ UNCHANGED <<cc, att, limits, beatLock, beat, task, wd, ch, events>>

\* a database write after the state update raised
DtLateRaise(a, b) ==
    /\ events < limits.events
    /\ events' = events + 1
    /\ dt[a][b].pc = "updated"
    /\ dt' = [dt EXCEPT ![a][b].pc = "idle", ![a][b].raised = "late"]
    /\ redis' = ReleaseBatchLock(DocFailed(redis, a), a, b)
    /\ hist' = Disturb
    /\ UNCHANGED <<cc, att, limits, beatLock, beat, task, wd, ch, store>>

\* check_indexing_completion: extraction over and every batch counted
ExtractionCompleted(s) ==
    s.complete_batch_num # None /\ s.batches_done >= s.complete_batch_num

\* a completion check that resets the fence before it marks the attempt
CompletionCallsResetFirst(s) ==
    IF ~ExtractionCompleted(s) THEN <<>>
    ELSE <<"reset",
           IF s.total_failures = 0 THEN "mark_attempt_succeeded"
           ELSE "mark_attempt_partially_succeeded",
           "clear_indexing_trigger", "cleanup_all_batches">>

\* check_indexing_completion: the calls it makes, in their order
CompletionCalls(s) ==
    IF ~ExtractionCompleted(s) THEN <<>>
    ELSE <<IF s.total_failures = 0 THEN "mark_attempt_succeeded"
           ELSE "mark_attempt_partially_succeeded",
           "clear_indexing_trigger", "cleanup_all_batches", "reset">>

\* one call of check_indexing_completion on the database w.att and w.cc,
\* the batch storage w.store and the KV store w.redis
Perform(w, a, call) ==
    CASE call = "mark_attempt_succeeded" ->
            [w EXCEPT !.att = MarkAttemptSucceeded(@, a)]
      [] call = "mark_attempt_partially_succeeded" ->
            [w EXCEPT !.att = MarkAttemptPartiallySucceeded(@, a)]
      [] call = "clear_indexing_trigger" ->
            IF w.att[a].status = "NONE" THEN w
            ELSE [w EXCEPT !.cc[w.att[a].pair].trigger = "none"]
      [] call = "cleanup_all_batches" ->
            [w EXCEPT !.store[a].batches = {}]
      [] call = "reset" ->
            IF w.att[a].status = "NONE" THEN w
            ELSE [w EXCEPT !.redis = Reset(@, w.att[a].pair)]

RECURSIVE PerformAll(_, _, _)
PerformAll(w, a, calls) ==
    IF calls = <<>> THEN w
    ELSE PerformAll(Perform(w, a, Head(calls)), a, Tail(calls))

\* check_indexing_completion, then delete_batch and the lock release
DtFinish(a, b) ==
    /\ dt[a][b].pc = "updated"
    /\ dt' = [dt EXCEPT ![a][b].pc = "idle",
                         ![a][b].raised = IF store[a].extraction THEN "none"
                                          ELSE "state"]
    /\ IF ~store[a].extraction
       THEN \* ValueError("No extraction state found")
            /\ redis' = ReleaseBatchLock(DocFailed(redis, a), a, b)
            /\ UNCHANGED <<cc, att, store>>
       ELSE LET w == PerformAll([att |-> att, cc |-> cc, store |-> store,
                                 redis |-> redis],
                                a, CompletionCalls(store[a]))
            IN /\ att' = w.att
               /\ cc' = w.cc
               /\ store' = [w.store EXCEPT ![a].batches = @ \ {b}]
               /\ redis' = ReleaseBatchLock(w.redis, a, b)
    /\ hist' = Disturb
    /\ UNCHANGED <<limits, beatLock, beat, task, wd, ch, events>>

\* the queue delivers the batch's task once more
DtRedeliver(a, b) ==
    /\ events < limits.events
    /\ events' = events + 1
    /\ dt[a][b].sent
    /\ dt' = [dt EXCEPT ![a][b].queued = @ + 1]
    /\ hist' = Disturb
    /\ UNCHANGED <<cc, att, limits, redis, beatLock, beat, task, wd, ch, store>>

DocProcessing(a, b) ==
    \/ DtMissing(a, b)
    \/ DtRejected(a, b)
    \/ DtStart(a, b)
    \/ DtPipelineRaise(a, b)
    \/ DtUpdate(a, b)
    \/ DtLateRaise(a, b)
    \/ DtFinish(a, b)
    \/ DtRedeliver(a, b)

(* ----------------------------- environment ----------------------------- *)
\* the schedule or the cc-pair's data changes what should_index answers
EnvSetDue(p) ==
    /\ events < limits.events
    /\ events' = events + 1
    /\ cc' = [cc EXCEPT ![p].due = ~@]
    /\ hist' = Disturb
    /\ UNCHANGED <<att, limits, redis, beatLock, beat, task, wd, ch, store, dt>>

\* an administrator deletes the connector: the cc-pair goes to DELETING
EnvDelete(p) ==
    /\ events < limits.events
    /\ events' = events + 1
    /\ cc[p].status # "DELETING"
    /\ cc' = [cc EXCEPT ![p].status = "DELETING"]
    /\ hist' = Disturb
    /\ UNCHANGED <<att, limits, redis, beatLock, beat, task, wd, ch, store, dt>>

\* the connector deletion removes the cc-pair's row
EnvPurge(p) ==
    /\ events < limits.events
    /\ events' = events + 1
    /\ cc[p].status # "NONE"
    /\ cc' = [cc EXCEPT ![p].status = "NONE"]
    /\ hist' = Disturb
    /\ UNCHANGED <<att, limits, redis, beatLock, beat, task, wd, ch, store, dt>>

\* an administrator asks for a run: the cc-pair gets an indexing trigger
EnvTrigger(p) ==
    /\ events < limits.events
    /\ events' = events + 1
    /\ cc[p].trigger = "none"
    /\ \E trigger \in {"REINDEX", "UPDATE"} :
          cc' = [cc EXCEPT ![p].trigger = trigger]
    /\ hist' = Disturb
    /\ UNCHANGED <<att, limits, redis, beatLock, beat, task, wd, ch, store, dt>>

\* an administrator sets the termination key of a running task
EnvTerminate(a) ==
    /\ events < limits.events
    /\ events' = events + 1
    /\ task[a] = "STARTED"
    /\ a \notin redis.terminate
    /\ redis' = [redis EXCEPT !.terminate = @ \cup {a}]
    /\ hist' = Disturb
    /\ UNCHANGED <<cc, att, limits, beatLock, beat, task, wd, ch, store, dt>>

\* a connector deletion or stop request raises its fence
EnvBlock(p) ==
    /\ events < limits.events
    /\ events' = events + 1
    /\ \E which \in {"delete", "stop"} :
        IF which = "delete"
        THEN /\ p \notin redis.delete_fenced
             /\ redis' = [redis EXCEPT !.delete_fenced = @ \cup {p}]
        ELSE /\ p \notin redis.stop_fenced
             /\ redis' = [redis EXCEPT !.stop_fenced = @ \cup {p}]
    /\ hist' = Disturb
    /\ UNCHANGED <<cc, att, limits, beatLock, beat, task, wd, ch, store, dt>>

\* the holder of the beat lock stalls for longer than the lease: the key
\* expires under it
EnvLeaseExpires(i) ==
    /\ events < limits.events
    /\ events' = events + 1
    /\ beatLock = i
    /\ beatLock' = None
    /\ beat' = [beat EXCEPT ![i].lapsed = TRUE]
    /\ hist' = Disturb
    /\ UNCHANGED <<cc, att, limits, redis, task, wd, ch, store, dt>>

Environment ==
    \/ \E p \in Pairs : EnvSetDue(p) \/ EnvBlock(p) \/ EnvDelete(p)
    \/ \E i \in Invocations : EnvLeaseExpires(i)
    \/ \E a \in AttemptIds : EnvTerminate(a)

Next ==
    \/ BeatAlone
    \/ BeatDeregisters
    \/ BeatGivesUp
    \/ Tick
    \/ \E a \in AttemptIds : Watchdog(a) \/ Child(a)
    \/ \E a \in AttemptIds : \E b \in BatchNums : DocProcessing(a, b)
    \/ Environment

Spec == Init /\ [][Next]_vars

(* ------------------------------ properties ----------------------------- *)
\* document processing in depth: the tick that creates the one attempt, two
\* batches, two events, a pipeline that stays under the failure threshold
DocAttempts == 1
DocRuns == 1
DocBatches == 2
DocEvents == 2
DocTicks == 1
DocResults == {<<0, 10>>, <<4, 40>>}

\* the supervisor and the child without their faults
WatchdogRuns(a) ==
    WdSpawn(a) \/ WdWaitAlive(a) \/ WdPoll(a) \/ WdExitMarked(a)

ChildStarts(a) == ChStart(a) \/ ChFenceCheck(a) \/ ChAcquire(a) \/ ChEnter(a)

ChildFetches(a) == ChBatch(a) \/ ChExtractDone(a) \/ ChComplete(a)

\* the beat of a run that has one tick
TickOnce ==
    \E i \in Invocations :
        \/ BeatStart(i) \/ BeatKickoffCreate(i)
        \/ BeatTaskId(i) \/ BeatValidate(i) \/ BeatEnd(i) \/ BeatDeregister(i)
        \/ BeatMonitor(i) \/ BeatMonitorTask(i) \/ BeatMonitorRecheck(i)

DocNext ==
    \/ TickOnce
    \/ \E a \in AttemptIds : WatchdogRuns(a) \/ ChildStarts(a) \/ ChildFetches(a)
    \/ \E a \in AttemptIds : \E b \in BatchNums : DocProcessing(a, b)

DocSpec ==
    /\ Start([attempts |-> DocAttempts, runs |-> DocRuns,
              batches |-> DocBatches, events |-> DocEvents,
              ticks |-> DocTicks, results |-> DocResults,
              codes |-> KillCodes, beats |-> SoleBeat, recycle |-> FALSE,
           current |-> TRUE])
    /\ [][DocNext]_vars

\* fetching in breadth: two attempts that both run, their batches left in
\* the queue
FetchAttempts == 2
FetchRuns == 2
FetchBatches == 1
FetchEvents == 0

\* the beat where no other worker removes a fence under the monitor
FetchNext ==
    \/ BeatAlone
    \/ Tick
    \/ \E a \in AttemptIds : WatchdogRuns(a) \/ ChildStarts(a) \/ ChildFetches(a)

FetchSpec ==
    /\ Start([attempts |-> FetchAttempts, runs |-> FetchRuns,
              batches |-> FetchBatches, events |-> FetchEvents,
              ticks |-> Unbounded, results |-> PipelineResults,
           codes |-> KillCodes, beats |-> SoleBeat, recycle |-> FALSE,
           current |-> TRUE])
    /\ [][FetchNext]_vars

\* the life of attempts without end: no batch is ever produced, no event
\* happens, the id of a finished attempt is issued again; every worker that
\* can step eventually does, and time passes
LiveAttempts == 2
LiveRuns == 2
LiveBatches == 0
LiveEvents == 0

LiveNext ==
    \/ BeatAlone
    \/ Tick
    \/ \E a \in AttemptIds : WatchdogRuns(a) \/ ChildStarts(a)

LiveSpec ==
    /\ Start([attempts |-> LiveAttempts, runs |-> LiveRuns,
              batches |-> LiveBatches, events |-> LiveEvents,
              ticks |-> Unbounded, results |-> PipelineResults,
              codes |-> KillCodes, beats |-> SoleBeat, recycle |-> TRUE,
              current |-> TRUE])
    /\ [][LiveNext]_vars
    /\ WF_vars(BeatAlone)
    /\ WF_vars(Tick)
    /\ \A a \in AttemptIds : WF_vars(WatchdogRuns(a)) /\ WF_vars(ChildStarts(a))

NonTerminalOf(p) ==
    {a \in AttemptIds : att[a].status \in NonTerminalStatuses /\ att[a].pair = p}

\* C10: every attempt the beat created eventually reaches a terminal status
\* and the fence made for it is eventually removed
C10_EveryAttemptEnds ==
    \A a \in AttemptIds :
        /\ (att[a].status \in NonTerminalStatuses)
              ~> (att[a].status \in TerminalStatuses)
        /\ (\E p \in Pairs : Fenced(redis, p) /\ Payload(redis, p).id = a)
              ~> ~(\E p \in Pairs : Fenced(redis, p) /\ Payload(redis, p).id = a)

\* C1: of every pair, at most one attempt is NOT_STARTED or IN_PROGRESS at
\* any instant (stated for the runs without any environment event, so that
\* its failure rests on no fault)
C1_AtMostOneNonTerminal ==
    events = 0 => \A p \in Pairs : Cardinality(NonTerminalOf(p)) <= 1

\* the fetch processes that took the generator lock of a pair, still run and
\* still own it
GeneratorLockHolders(p) ==
    {a \in AttemptIds :
        /\ att[a].status # "NONE"
        /\ att[a].pair = p
        /\ ch[a].acquire = "ok"
        /\ ch[a].pc # "exited"
        /\ redis.keys[p].generator_lock = a}

C3_SingleAssignment ==
    [][\A p \in Pairs :
        GetCompletion(redis, p) # None =>
            \/ GetCompletion(redis', p) = GetCompletion(redis, p)
            \/ redis'.keys[p] = NoKeys]_vars

\* C3: the fetcher of the attempt that owns the fence has written 200 and a
\* doc-processing task of it 500, the fence never reset in between
C3_Witness ==
    \E a \in AttemptIds :
        /\ att[a].status # "NONE"
        /\ Payload(redis, PairOf(a)).exists
        /\ Payload(redis, PairOf(a)).id = a
        /\ Payload(redis, PairOf(a)).started
        /\ ch[a].pc = "exited" /\ ch[a].code = 0 /\ ch[a].ran_entrypoint
        /\ GetCompletion(redis, PairOf(a)) = HTTP_INTERNAL_SERVER_ERROR

RECURSIVE WriteTimes(_, _, _, _)
WriteTimes(r, p, code, n) ==
    IF n = 0 THEN r
    ELSE WriteTimes(SetGeneratorComplete(r, p, code), p, code, n - 1)

C5_StatusMatchesFailures ==
    \A a \in AttemptIds :
        /\ att[a].status = "SUCCESS" => store[a].total_failures = 0
        /\ att[a].status = "PARTIAL_SUCCESS" => store[a].total_failures > 0

\* C6: batches_done is incremented at most once on behalf of a batch, over
\* all deliveries of its task
C6_CountedOnce ==
    \A a \in AttemptIds : \A b \in BatchNums : dt[a][b].incs <= 1

\* C7: whenever a supervisor sets TERMINATED_BY_ACTIVITY_TIMEOUT, the TTL it
\* just read is negative and the expected expiry (last TTL seen plus the
\* time it was seen) is strictly before now; so a negative TTL read no later
\* than the expected expiry only makes it wait
C7_TimeoutIsGenuine ==
    [][\A a \in AttemptIds :
        (/\ wd[a].status # "terminated_by_activity_timeout"
         /\ wd'[a].status = "terminated_by_activity_timeout")
            => /\ wd[a].deadline < 0
               /\ wd'[a].ttl < 0
               /\ ConnectorActiveTtl(redis', PairOf(a)) < 0]_vars

\* C7: the supervisor has set TERMINATED_BY_ACTIVITY_TIMEOUT
C7_Witness ==
    \E a \in AttemptIds :
        /\ wd[a].pc = "exit"
        /\ wd[a].status = "terminated_by_activity_timeout"

\* C8: an attempt that is non-terminal and unfenced when a tick starts is
\* FAILED once that tick has run its phase 2 (no other worker stepping in,
\* and no environment event before)
C8_UnfencedFailedByTick ==
    (events = 0 /\ hist.streak >= 1 /\ \E i \in Invocations : beat[i].pc = "finalize") =>
        \A a \in hist.orphans : att[a].status = "FAILED"

\* C9 as stated: the second of two ticks in immediate succession creates no
\* attempt
C9_SecondTickCreatesNothing ==
    hist.streak = 2 => hist.created = {}

\* C9 amended: the second of two ticks in immediate succession creates no
\* attempt for a pair whose fence stood when the first tick ended
C9_SecondTickSkipsFenced ==
    hist.streak = 2 => hist.created \cap hist.prev_fenced = {}

\* C9: the first tick created an attempt for a pair, left its fence standing,
\* and the second tick has passed phase 1 without creating one for it
C9_Witness ==
    /\ hist.streak = 2
    /\ \E i \in Invocations : beat[i].pc = "finalize"
    /\ hist.prev_created \cap hist.prev_fenced # {}
    /\ hist.created = {}

(* ------------------------- the run without faults ---------------------- *)
\* one attempt whose fetch, supervisor and doc-processing all run to their
\* end: no failures in any batch, no event, no lease runs out, and every
\* worker that can step eventually does
HappyAttempts == 1
HappyRuns == 1
HappyBatches == 2
HappyEvents == 0
HappyResults == {<<0, 10>>}

DocCompletes(a, b) == DtStart(a, b) \/ DtUpdate(a, b) \/ DtFinish(a, b)

HappyNext ==
    \/ BeatAlone
    \/ BeatDeregisters
    \/ \E a \in AttemptIds : WatchdogRuns(a) \/ ChildStarts(a) \/ ChildFetches(a)
    \/ \E a \in AttemptIds : \E b \in BatchNums : DocCompletes(a, b)

HappySpec ==
    /\ Start([attempts |-> HappyAttempts, runs |-> HappyRuns,
              batches |-> HappyBatches, events |-> HappyEvents,
              ticks |-> Unbounded, results |-> HappyResults,
              codes |-> KillCodes, beats |-> SoleBeat, recycle |-> FALSE,
           current |-> TRUE])
    /\ [][HappyNext]_vars
    /\ WF_vars(BeatAlone \/ BeatDeregisters)
    /\ \A a \in AttemptIds :
          /\ WF_vars(WatchdogRuns(a))
          /\ WF_vars(ChildStarts(a))
          /\ WF_vars(ChildFetches(a))
          /\ \A b \in BatchNums : WF_vars(DocCompletes(a, b))

\* the fetcher of attempt a wrote 200 and left, and every batch it produced
\* has been processed to the end
RanToCompletion(a) ==
    /\ ch[a].pc = "exited" /\ ch[a].code = 0 /\ ch[a].ran_entrypoint
    /\ store[a].complete_batch_num # None
    /\ \A b \in BatchNums :
          b <= store[a].complete_batch_num =>
             dt[a][b].incs = 1 /\ dt[a][b].pc = "idle" /\ dt[a][b].queued = 0

\* C11: once the fetcher has set completion 200 and all its batches are
\* processed without a failure, the run reaches and stays in the state where
\* the attempt is SUCCESS, the fence is removed and the cc-pair is ACTIVE
C11_HappyPathEndsActive ==
    \A a \in AttemptIds :
        RanToCompletion(a) ~>
            [](/\ att[a].status = "SUCCESS"
               /\ ~Fenced(redis, PairOf(a))
               /\ cc[PairOf(a)].status = "ACTIVE")

(* -------------------------- the beat under contention ------------------ *)
\* two invocations of check_for_indexing, a lease that can run out under
\* its holder, and one attempt that is fetched but not processed
BeatAttempts == 1
BeatRuns == 1
BeatBatches == 1
BeatEvents == 2

BeatNext ==
    \/ Beat
    \/ \E i \in Invocations : EnvLeaseExpires(i)
    \/ \E a \in AttemptIds : WatchdogRuns(a) \/ ChildStarts(a) \/ ChildFetches(a)

BeatSpec ==
    /\ Start([attempts |-> BeatAttempts, runs |-> BeatRuns,
              batches |-> BeatBatches, events |-> BeatEvents,
              ticks |-> Unbounded, results |-> PipelineResults,
              codes |-> KillCodes, beats |-> NumBeats, recycle |-> FALSE,
           current |-> TRUE])
    /\ [][BeatNext]_vars

C14_ResetLeavesNothing ==
    [][\A p \in Pairs :
          (Fenced(redis, p) /\ ~Fenced(redis', p)) =>
              /\ redis'.keys[p] = NoKeys
              /\ p \notin redis'.active_fences]_vars

\* the completion check of the last batch has reset the fence of a finished
\* attempt: no key and no membership entry are left
C14_Witness ==
    \E a \in AttemptIds :
        /\ att[a].status \in {"SUCCESS", "PARTIAL_SUCCESS"}
        /\ store[a].batches_done >= 1
        /\ ~Fenced(redis, PairOf(a))
        /\ redis.keys[PairOf(a)] = NoKeys
        /\ redis.active_fences = {}
        /\ \A i \in Invocations : beat[i].pc \notin {"finalize", "mon_task", "mon_recheck"}

(* ------------------------- the exit code registry ---------------------- *)
\* one attempt whose child is ended from outside, while it waits for its
\* fence, with any exit code of the range, and the supervisor that
\* classifies it
CodeAttempts == 1
CodeRuns == 1
CodeBatches == 0
CodeEvents == 1
CodeTicks == 1
SignalSpan == 10
ExitCodeSpan == 260
ExitCodes == (0 - SignalSpan)..ExitCodeSpan

CodeNext ==
    \/ \E i \in Invocations :
          \/ BeatStart(i) \/ BeatKickoffCreate(i) \/ BeatTaskId(i)
          \/ BeatValidate(i) \/ BeatEnd(i)
          \/ BeatMonitor(i) \/ BeatMonitorTask(i) \/ BeatMonitorRecheck(i)
    \/ \E a \in AttemptIds : WatchdogRuns(a) \/ ChStart(a) \/ ChKilled(a)

CodeSpec ==
    /\ Start([attempts |-> CodeAttempts, runs |-> CodeRuns,
              batches |-> CodeBatches, events |-> CodeEvents,
              ticks |-> CodeTicks, results |-> PipelineResults,
              codes |-> ExitCodes, beats |-> SoleBeat, recycle |-> FALSE,
           current |-> TRUE])
    /\ [][CodeNext]_vars

\* the registry of exit codes as the protocol states it
ExitCodeRegistry ==
    {<<0 - 9, "process_signal_sigkill">>, <<137, "out_of_memory">>,
     <<247, "connector_validation_error">>, <<248, "blocked_by_deletion">>,
     <<249, "blocked_by_stop_signal">>, <<250, "fence_not_found">>,
     <<251, "fence_readiness_timeout">>, <<252, "fence_mismatch">>,
     <<253, "task_already_running">>, <<254, "index_attempt_mismatch">>,
     <<255, "connector_exceptioned">>}

RegistryStatus(code) ==
    IF \E e \in ExitCodeRegistry : e[1] = code
    THEN (CHOOSE e \in ExitCodeRegistry : e[1] = code)[2]
    ELSE "undefined"

\* C15: from_code maps the eleven registered exit codes to their statuses
\* and every other code to UNDEFINED, from_code(s.code) = s for each of the
\* eleven statuses, and the status the supervisor reports for a failed child
\* is the registry's
C15_FromCodeIsRegistry ==
    /\ \A code \in ExitCodes : FromCode(code) = RegistryStatus(code)
    /\ \A e \in ExitCodeRegistry : Code(e[2]) = e[1] /\ FromCode(Code(e[2])) = e[2]
    /\ \A a \in AttemptIds :
          (wd[a].has_exit /\ wd[a].exc) =>
              wd[a].status = RegistryStatus(wd[a].exit_code)

\* the supervisor has classified a child that the OOM killer ended, and one
\* that ended with a code outside the registry
C15_Witness ==
    \E a \in AttemptIds :
        /\ wd[a].pc = "exit" /\ wd[a].has_exit /\ wd[a].exc
        /\ \/ wd[a].exit_code = 137 /\ wd[a].status = "out_of_memory"
           \/ wd[a].exit_code = 1 /\ wd[a].status = "undefined"

(* -------------------------- the failure threshold ---------------------- *)
\* one attempt with two batches whose pipeline results sit on both sides of
\* the threshold: no failure, exactly 3 failures, 4 failures at exactly 10%,
\* 4 failures above 10%, 4 failures with no new document
ThresholdAttempts == 1
ThresholdRuns == 1
ThresholdBatches == 2
ThresholdEvents == 0
ThresholdTicks == 1
ThresholdResults == {<<0, 10>>, <<3, 10>>, <<4, 40>>, <<4, 10>>, <<4, 0>>}

ThresholdNext ==
    \/ TickOnce
    \/ \E a \in AttemptIds : WatchdogRuns(a) \/ ChildStarts(a) \/ ChildFetches(a)
    \/ \E a \in AttemptIds : \E b \in BatchNums : DocCompletes(a, b)

ThresholdSpec ==
    /\ Start([attempts |-> ThresholdAttempts, runs |-> ThresholdRuns,
              batches |-> ThresholdBatches, events |-> ThresholdEvents,
              ticks |-> ThresholdTicks, results |-> ThresholdResults,
              codes |-> KillCodes, beats |-> SoleBeat, recycle |-> FALSE,
           current |-> TRUE])
    /\ [][ThresholdNext]_vars

\* C16: the threshold check made after a batch with failures raises exactly
\* when the cumulative failures exceed 3 and are more than 10% of the
\* document count (0 counted as 1), and what it raises is the last failure's
\* exception or a RuntimeError
C16_RaisesOverThreshold ==
    [][\A a \in AttemptIds : \A b \in BatchNums :
          (/\ dt[a][b].pc = "running"
           /\ dt'[a][b].pc # "running"
           /\ store'[a].total_failures > store[a].total_failures) =>
              LET failures == store'[a].total_failures
                  count == IF store'[a].net_doc_change = 0 THEN 1
                           ELSE store'[a].net_doc_change
              IN  /\ dt'[a][b].raised \in {"none", "last_failure", "runtime_error"}
                  /\ dt'[a][b].raised # "none" <=>
                        (failures > 3 /\ failures * 10 > count)
                  /\ failures = 3 => dt'[a][b].raised = "none"
                  /\ failures * 10 = count => dt'[a][b].raised = "none"]_vars

\* a delivery has re-raised the last failure's exception with 8 failures in
\* 50 documents, after a batch of 4 failures in 40 that did not raise
C16_Witness ==
    \E a \in AttemptIds : \E b \in BatchNums :
        /\ dt[a][b].raised = "last_failure"
        /\ store[a].total_failures = 8
        /\ store[a].net_doc_change = 50

(* ------------------------- a connector being deleted ------------------- *)
\* two attempts, no batch; the cc-pair can go to DELETING and its deletion
\* or stop fence can be raised, at any moment
DeleteAttempts == 2
DeleteRuns == 1
DeleteBatches == 0
DeleteEvents == 2

DeleteNext ==
    \/ BeatAlone
    \/ \E p \in Pairs : EnvDelete(p) \/ EnvBlock(p)
    \/ \E a \in AttemptIds : WatchdogRuns(a) \/ ChildStarts(a)

DeleteSpec ==
    /\ Start([attempts |-> DeleteAttempts, runs |-> DeleteRuns,
              batches |-> DeleteBatches, events |-> DeleteEvents,
              ticks |-> Unbounded, results |-> PipelineResults,
              codes |-> KillCodes, beats |-> SoleBeat, recycle |-> FALSE,
           current |-> TRUE])
    /\ [][DeleteNext]_vars

\* C17: no attempt row and no fence is created by the beat for a cc-pair in
\* DELETING, and a child that finds the deletion fence set at its pre-flight
\* exits 248 without having acquired the generator lock, written `started`
\* or run the fetch entrypoint
C17_DeletingStartsNothing ==
    [][/\ \A a \in AttemptIds :
             (att[a].status = "NONE" /\ att'[a].status # "NONE") =>
                 cc[att'[a].pair].status # "DELETING"
       /\ \A p \in Pairs :
             (cc[p].status = "DELETING" /\ ~Fenced(redis, p) /\ Fenced(redis', p)) =>
                 beat' = beat
       /\ \A a \in AttemptIds :
             (/\ ch[a].pc = "starting" /\ ch'[a].pc # "starting"
              /\ PairOf(a) \in redis.delete_fenced) =>
                 /\ ch'[a].pc = "exited"
                 /\ ch'[a].code = Code("blocked_by_deletion")
       /\ \A a \in AttemptIds :
             ch'[a].code = Code("blocked_by_deletion") =>
                 /\ ch'[a].acquire = "none"
                 /\ ~ch'[a].wrote_started
                 /\ ~ch'[a].ran_entrypoint]_vars

\* the cc-pair is DELETING and due, a tick has gone through its kick-off
\* without creating anything, and the child of the attempt created before
\* has met the deletion fence and exited 248
C17_Witness ==
    \E p \in Pairs : \E a \in AttemptIds :
        /\ att[a].pair = p
        /\ cc[p].status = "DELETING" /\ cc[p].due
        /\ ch[a].pc = "exited" /\ ch[a].code = Code("blocked_by_deletion")
        /\ ~Fenced(redis, p)
        /\ hist.streak >= 1 /\ hist.created = {}
        /\ \E i \in Invocations : beat[i].pc = "finalize"

\* C20: the monitor moves a cc-pair from SCHEDULED or INITIAL_INDEXING to
\* ACTIVE only when the attempt of the fence it finalizes has a successful
\* status
C20_ActiveOnlyOnSuccess ==
    [][\A p \in Pairs :
          (cc[p].status \in {"SCHEDULED", "INITIAL_INDEXING"}
              /\ cc'[p].status = "ACTIVE") =>
                 /\ Payload(redis, p).id \in AttemptIds
                 /\ IsSuccessful(att[Payload(redis, p).id].status)]_vars

(* --------------------- a doc-processing task that raises --------------- *)
\* one attempt with two batches; a delivery can raise in the pipeline, after
\* its update, or on the failure threshold; every worker that can step
\* eventually does
RaiseAttempts == 1
RaiseRuns == 1
RaiseBatches == 1
RaiseEvents == 1
RaiseResults == {<<0, 10>>}

DocRaises(a, b) == DtPipelineRaise(a, b) \/ DtLateRaise(a, b)

RaiseNext ==
    \/ BeatAlone
    \/ BeatDeregisters
    \/ \E a \in AttemptIds : WatchdogRuns(a) \/ ChildStarts(a) \/ ChildFetches(a)
    \/ \E a \in AttemptIds : \E b \in BatchNums : DocCompletes(a, b) \/ DocRaises(a, b)

RaiseSpec ==
    /\ Start([attempts |-> RaiseAttempts, runs |-> RaiseRuns,
              batches |-> RaiseBatches, events |-> RaiseEvents,
              ticks |-> Unbounded, results |-> RaiseResults,
              codes |-> KillCodes, beats |-> SoleBeat, recycle |-> FALSE,
           current |-> TRUE])
    /\ [][RaiseNext]_vars
    /\ WF_vars(BeatAlone \/ BeatDeregisters)
    /\ \A a \in AttemptIds :
          /\ WF_vars(WatchdogRuns(a))
          /\ WF_vars(ChildStarts(a))
          /\ WF_vars(ChildFetches(a))
          /\ \A b \in BatchNums : WF_vars(DocCompletes(a, b))

\* a delivery of attempt a ended by an exception and cc-pair p, the
\* attempt's, is fenced
RaisedUnderFence(a, p) ==
    /\ att[a].pair = p
    /\ Fenced(redis, p)
    /\ \E b \in BatchNums : dt[a][b].raised # "none"

\* the step in which a delivery of attempt a ends by an exception
Raises(a) ==
    \E b \in BatchNums : dt[a][b].raised = "none" /\ dt'[a][b].raised # "none"

C19_ThresholdMeansFailed ==
    \A a \in AttemptIds :
        (\E b \in BatchNums : dt[a][b].raised \in {"last_failure", "runtime_error"})
            => att[a].status \notin {"SUCCESS", "PARTIAL_SUCCESS"}

(* ------------------- the supervisor and a child that hangs ------------- *)
\* one attempt whose fetch produces nothing and never ends by itself; the
\* child can be killed or blocked, the termination key can be set, the
\* database can raise while the supervisor reports; every worker that can
\* step eventually does, and time passes
WatchAttempts == 1
WatchRuns == 1
WatchBatches == 0
WatchEvents == 2

WatchNext ==
    \/ BeatAlone
    \/ Tick
    \/ \E a \in AttemptIds : Watchdog(a) \/ ChildStarts(a) \/ ChKilled(a)
    \/ \E a \in AttemptIds : EnvTerminate(a)
    \/ \E p \in Pairs : EnvBlock(p)

WatchSpec ==
    /\ Start([attempts |-> WatchAttempts, runs |-> WatchRuns,
              batches |-> WatchBatches, events |-> WatchEvents,
              ticks |-> Unbounded, results |-> PipelineResults,
              codes |-> KillCodes, beats |-> SoleBeat, recycle |-> FALSE,
           current |-> TRUE])
    /\ [][WatchNext]_vars
    /\ WF_vars(BeatAlone)
    /\ WF_vars(Tick)
    /\ \A a \in AttemptIds : WF_vars(WatchdogRuns(a)) /\ WF_vars(ChildStarts(a))

\* the supervisor of attempt a reports and returns in this step
WdReports(a) == wd[a].pc = "exit" /\ wd'[a].pc = "done"

\* C21: a poll that finds the termination key of its task set and the child
\* still running leaves the loop with TERMINATED_BY_SIGNAL; the exit that
\* follows marks the attempt CANCELED (the write is lost only when the
\* database raises), cancels the child and clears the watchdog heartbeat
C21_SignalCancels ==
    [][\A a \in AttemptIds :
          /\ (WdPoll(a) /\ Terminating(redis, a) /\ ~ChildExited(a)) =>
                /\ wd'[a].pc = "exit"
                /\ wd'[a].status = "terminated_by_signal"
                /\ ~wd'[a].exc
          /\ (WdReports(a) /\ wd[a].status = "terminated_by_signal") =>
                /\ events' = events => att'[a].status = "CANCELED"
                /\ ch'[a].pc = "exited"
                /\ ch[a].pc # "exited" => ch'[a].code = -9
                /\ ~WatchdogSignaled(redis', PairOf(a))]_vars

\* the supervisor has returned on the signal: attempt CANCELED, child killed
C21_Witness ==
    \E a \in AttemptIds :
        /\ a \in redis.terminate
        /\ wd[a].pc = "done"
        /\ wd[a].status = "terminated_by_signal"
        /\ att[a].status = "CANCELED"
        /\ ch[a].pc = "exited"
        /\ ch[a].code = -9

\* the supervisor of attempt a has returned on the activity timeout
TimedOut(a) ==
    /\ wd[a].pc = "done"
    /\ wd[a].status = "terminated_by_activity_timeout"
    /\ ch[a].pc = "exited"
    /\ ~WatchdogSignaled(redis, PairOf(a))

\* C22: a supervisor in its loop whose connector heartbeat is not renewed
\* eventually returns with TERMINATED_BY_ACTIVITY_TIMEOUT, the child
\* cancelled and the watchdog heartbeat cleared, unless the termination key
\* was set or the child ended first; the exit on the timeout marks the
\* attempt FAILED (the write is lost only when the database raises)
C22_SilenceTimesOut ==
    /\ [][\A a \in AttemptIds :
             (WdReports(a) /\ wd[a].status = "terminated_by_activity_timeout") =>
                /\ events' = events => att'[a].status = "FAILED"
                /\ ch'[a].pc = "exited"
                /\ ch[a].pc # "exited" => ch'[a].code = -9
                /\ ~WatchdogSignaled(redis', PairOf(a))]_vars
    /\ \A a \in AttemptIds :
          (wd[a].pc = "loop") ~>
              \/ TimedOut(a)
              \/ a \in redis.terminate
              \/ wd[a].status \notin {"undefined", "terminated_by_activity_timeout"}

\* no event at all: the child hung, the supervisor timed out and killed it
C22_Witness ==
    \E a \in AttemptIds :
        /\ events = 0
        /\ TimedOut(a)
        /\ att[a].status = "FAILED"
        /\ ch[a].code = -9

\* the child of attempt a ended with an error code while the fence of its
\* cc-pair p names the attempt and the completion marker is unset
ChildFailedUnderFence(a, p) ==
    /\ att[a].pair = p
    /\ ch[a].pc = "exited"
    /\ ch[a].code # 0
    /\ Fenced(redis, p)
    /\ Payload(redis, p).id = a
    /\ GetCompletion(redis, p) = None

WdReportsDbError(a) == WdReports(a) /\ events' # events

\* C24: when the database raises while the supervisor marks the attempt,
\* the error stays inside the task: the attempt row is left as it was, the
\* task ends as it would have without the error, the child is cancelled in
\* the signal and timeout paths, and the watchdog heartbeat is cleared
C24_DbErrorTolerated ==
    [][\A a \in AttemptIds :
          WdReportsDbError(a) =>
            /\ att' = att
            /\ task'[a] = IF wd[a].exc THEN "FAILURE" ELSE "SUCCESS"
            /\ (~wd[a].exc /\ wd[a].status \in {"terminated_by_signal",
                                                "terminated_by_activity_timeout"})
                  => ch'[a].pc = "exited"
            /\ ~WatchdogSignaled(redis', PairOf(a))]_vars

\* the supervisor left on the signal, the database raised, and the child was
\* killed all the same
C24_Witness ==
    \E a \in AttemptIds :
        /\ a \in redis.terminate
        /\ wd[a].pc = "done"
        /\ wd[a].status = "terminated_by_signal"
        /\ att[a].status \in NonTerminalStatuses
        /\ ch[a].pc = "exited"
        /\ ch[a].code = -9
        /\ ~WatchdogSignaled(redis, PairOf(a))

\* invocation i of the beat takes a step of its monitor
MonitorSteps(i) ==
    /\ beat[i].pc \in {"finalize", "mon_task", "mon_recheck"}
    /\ <<beat'[i].pc, beat'[i].keys>> # <<beat[i].pc, beat[i].keys>>

\* C25: a monitor step fails an attempt or removes a fence whose completion
\* marker is unset only at the second read, after a first read that found
\* the marker unset and a read of the task state that found it terminal;
\* a marker unset with a task state that is not terminal sends the monitor
\* back with the attempt and the fence as they were
C25_CrashNeedsDoubleCheck ==
    [][\A i \in Invocations :
          MonitorSteps(i) =>
            /\ (\E p \in Pairs :
                    /\ Fenced(redis, p)
                    /\ GetCompletion(redis, p) = None
                    /\ att' # att \/ redis'.keys[p] # redis.keys[p])
                  => /\ beat[i].pc = "mon_recheck"
                     /\ GetCompletion(redis, beat[i].cur) = None
                     /\ task[beat[i].payload.task] \in {"SUCCESS", "FAILURE", "REVOKED"}
                     /\ ~Fenced(redis', beat[i].cur)
            /\ beat'[i].pc = "mon_task"
                  => GetCompletion(redis, beat'[i].cur) = None
            /\ beat[i].pc = "mon_task"
                  => /\ att' = att
                     /\ redis' = redis
                     /\ beat'[i].pc = "mon_recheck"
                           <=> task[beat[i].payload.task] \in {"SUCCESS", "FAILURE", "REVOKED"}
            /\ (beat[i].pc = "mon_recheck" /\ GetCompletion(redis, beat[i].cur) # None)
                  => att' = att /\ redis' = redis]_vars

\* the monitor is at its second read: the task has ended, the marker is
\* still unset and the attempt is still running
C25_Witness ==
    \E i \in Invocations :
        /\ beat[i].pc = "mon_recheck"
        /\ Fenced(redis, beat[i].cur)
        /\ GetCompletion(redis, beat[i].cur) = None
        /\ task[beat[i].payload.task] \in {"SUCCESS", "FAILURE", "REVOKED"}
        /\ att[beat[i].payload.id].status = "IN_PROGRESS"

\* C26: while the completion marker of a fence is set and the watchdog
\* heartbeat of that fence is present, a monitor step leaves the fence and
\* its keys, the attempt rows and the cc-pair status as they are, except
\* for the promotion of SCHEDULED to INITIAL_INDEXING
C26_WaitsForWatchdog ==
    [][\A i \in Invocations : \A p \in Pairs :
          (/\ MonitorSteps(i)
           /\ Fenced(redis, p)
           /\ redis.keys[p].completion # None
           /\ redis.keys[p].watchdog)
            => /\ redis'.keys[p] = redis.keys[p]
               /\ p \in redis'.active_fences <=> p \in redis.active_fences
               /\ \A a \in AttemptIds : att[a].pair = p => att'[a] = att[a]
               /\ cc'[p] \in {cc[p], PromoteScheduled(cc[p])}]_vars

\* the monitor is about to look at a fence whose marker is set while the
\* supervisor is still signalling
C26_Witness ==
    \E i \in Invocations : \E p \in Pairs :
        /\ beat[i].pc = "finalize"
        /\ beat[i].keys # {}
        /\ p = Min(beat[i].keys)
        /\ Fenced(redis, p)
        /\ Payload(redis, p).task # None
        /\ redis.keys[p].completion # None
        /\ redis.keys[p].watchdog

\* the delivery of batch b of attempt a runs check_indexing_completion with
\* the completion condition true: it marks the attempt, cleans the batches
\* and resets the fence
Finalizes(a, b) ==
    /\ dt[a][b].pc = "updated"
    /\ dt'[a][b].pc = "idle"
    /\ store[a].extraction
    /\ ExtractionCompleted(store[a])

\* C27: the task that finalizes an attempt is the only one to do so (no
\* task finalizes an attempt that a task has already marked SUCCESS or
\* PARTIAL_SUCCESS), and the completion check of a task sees the
\* batches_done its own increment produced
C27_OneTaskFinalizes ==
    [][\A a \in AttemptIds : \A b \in BatchNums :
          Finalizes(a, b) => ~IsSuccessful(att[a].status)]_vars

\* the sum of f[b] over the batches in S
RECURSIVE SumOver(_, _)
SumOver(f, S) ==
    IF S = {} THEN 0
    ELSE LET b == Min(S) IN f[b] + SumOver(f, S \ {b})

FinishAttempts == 1
FinishRuns == 1
FinishBatches == 2
FinishEvents == 1
FinishTicks == 1
FinishResults == {<<0, 10>>, <<4, 40>>}

FinishNext ==
    \/ TickOnce
    \/ \E a \in AttemptIds : WatchdogRuns(a) \/ ChildStarts(a) \/ ChildFetches(a)
    \/ \E a \in AttemptIds : \E b \in BatchNums : DocCompletes(a, b)
    \/ \E p \in Pairs : EnvTrigger(p)

FinishSpec ==
    /\ Start([attempts |-> FinishAttempts, runs |-> FinishRuns,
              batches |-> FinishBatches, events |-> FinishEvents,
              ticks |-> FinishTicks, results |-> FinishResults,
              codes |-> KillCodes, beats |-> SoleBeat, recycle |-> FALSE,
           current |-> TRUE])
    /\ [][FinishNext]_vars

\* the delivery of batch b of attempt a runs check_indexing_completion
ChecksCompletion(a, b) ==
    /\ dt[a][b].pc = "updated"
    /\ dt'[a][b].pc = "idle"
    /\ store[a].extraction

RaisesHolding(a, b) ==
    /\ dt[a][b].pc \in {"running", "updated"}
    /\ dt'[a][b].pc = "idle"
    /\ dt'[a][b].raised # "none"

\* a delivery of batch b of attempt a finds the per-batch lock taken and
\* ends by the exception with code 253
RaisesRejected(a, b) ==
    /\ dt'[a][b].queued < dt[a][b].queued
    /\ dt'[a][b].pc = dt[a][b].pc
    /\ b \in store[a].batches

FencePolls(a) ==
    /\ ch[a].pc = "waitfence"
    /\ ch'[a] # ch[a]
    /\ events' = events
    /\ wd' = wd

\* the fence as the round reads it is there, complete and names attempt a
FenceReadyFor(a) ==
    LET f == redis.keys[PairOf(a)].fence IN
    /\ f.exists
    /\ f.id # None
    /\ f.task # None
    /\ f.id = a

\* C31: the child goes on to the acquire of the generator lock only from a
\* round that read an existing fence whose payload has index_attempt_id and
\* celery_task_id set and names the child's own attempt; a round inside the
\* timeout exits 250 when the fence is absent, exits 252 when the complete
\* payload names another attempt and waits one more second when the payload
\* is incomplete; the round after the timeout exits 251
C31_FenceGate ==
    [][\A a \in AttemptIds : FencePolls(a) =>
        LET f == redis.keys[PairOf(a)].fence
            inTime == ch[a].waited <= FenceWaitPolls
            complete == f.id # None /\ f.task # None
            c == ch'[a]
        IN
        /\ c.pc \in {"ready", "waitfence", "exited"}
        /\ (c.pc = "ready") = (inTime /\ FenceReadyFor(a))
        /\ c.pc = "exited" => c.code \in {250, 251, 252}
        /\ (c.pc = "exited" /\ c.code = 250) = (inTime /\ ~f.exists)
        /\ (c.pc = "exited" /\ c.code = 252)
                = (inTime /\ f.exists /\ complete /\ f.id # a)
        /\ (c.pc = "exited" /\ c.code = 251) = ~inTime
        /\ (c.pc = "waitfence")
                = (inTime /\ f.exists /\ ~complete
                    /\ c.waited = ch[a].waited + 1)
        /\ redis' = redis]_vars

\* a child gave the wait up after the timeout, the payload still incomplete
C31_Witness ==
    \E a \in AttemptIds :
        /\ ch[a].pc = "exited"
        /\ ch[a].code = 251
        /\ att[a].status # "NONE"
        /\ LET f == redis.keys[PairOf(a)].fence IN
            f.exists /\ (f.id = None \/ f.task = None)

(* -------------------- the child's pre-flight (C32) --------------------- *)
\* the pre-flight of the child of attempt a is taken (the child is neither
\* killed from outside nor cancelled by its watchdog)
PreflightRuns(a) ==
    /\ ch[a].pc = "starting"
    /\ ch'[a] # ch[a]
    /\ events' = events
    /\ wd' = wd

\* C32: a child whose cc-pair is fenced for deletion exits 248, one whose
\* cc-pair is fenced for stop and not for deletion exits 249; either exit is
\* taken at the pre-flight, before the wait for the indexing fence, and
\* leaves the fence payload, the generator lock, the heartbeats and the
\* completion marker as they were
C32_PreflightExits ==
    [][\A a \in AttemptIds : PreflightRuns(a) =>
        LET p == PairOf(a)
            deleting == p \in redis.delete_fenced
            stopping == p \in redis.stop_fenced
            c == ch'[a]
        IN
        /\ deleting => c.pc = "exited" /\ c.code = 248
        /\ (stopping /\ ~deleting) => c.pc = "exited" /\ c.code = 249
        /\ (~stopping /\ ~deleting) => c.pc = "waitfence"
        /\ c.pc = "exited" =>
            /\ c.acquire = "none"
            /\ ~c.wrote_started
            /\ redis'.keys[p] = redis.keys[p]
            /\ redis' = redis]_vars

\* a child met both fences and left with the code of the deletion, under an
\* indexing fence that it has not touched
C32_Witness ==
    \E a \in AttemptIds :
        /\ ch[a].pc = "exited"
        /\ ch[a].code = 248
        /\ att[a].status # "NONE"
        /\ PairOf(a) \in redis.delete_fenced
        /\ PairOf(a) \in redis.stop_fenced
        /\ Fenced(redis, PairOf(a))
        /\ ~Payload(redis, PairOf(a)).started

(* ------------------ the child's ways out (C33, C34) -------------------- *)
\* one attempt whose child can meet a removed cc-pair row, an exception of
\* the entrypoint, a failing write of `started` or a kill
ChildAttempts == 1
ChildRuns == 1
ChildBatches == 1
ChildEvents == 1

ChildNext ==
    \/ BeatAlone
    \/ \E a \in AttemptIds : Watchdog(a) \/ Child(a) \/ ChSetFenceRaises(a)
    \/ \E p \in Pairs : EnvPurge(p)

ChildSpec ==
    /\ Start([attempts |-> ChildAttempts, runs |-> ChildRuns,
              batches |-> ChildBatches, events |-> ChildEvents,
              ticks |-> Unbounded, results |-> PipelineResults,
              codes |-> KillCodes, beats |-> SoleBeat, recycle |-> FALSE,
           current |-> TRUE])
    /\ [][ChildNext]_vars

\* the child of attempt a ends by itself with a code of its try block
ChildFails(a) ==
    /\ ch[a].pc \in {"locked", "fetching", "extracted"}
    /\ ch'[a].pc = "exited"
    /\ ch'[a].code \in {247, 254, 255}

\* C33: the completion marker becomes 200 only in the step of a child whose
\* entrypoint has returned, and that child exits 0; a child that finds a
\* database precondition missing exits 254, an exception of the entrypoint
\* gives 247 (ConnectorValidationError) or 255 (re-raised), and none of the
\* three writes the completion marker
C33_CompleteOnlyAfterReturn ==
    [][/\ \A p \in Pairs :
            (GetCompletion(redis, p) # 200 /\ GetCompletion(redis', p) = 200) =>
                \E a \in AttemptIds :
                    /\ PairOf(a) = p
                    /\ ch[a].pc = "extracted"
                    /\ ch[a].ran_entrypoint
                    /\ ch'[a].pc = "exited"
                    /\ ch'[a].code = 0
       /\ \A a \in AttemptIds :
            ChildFails(a) =>
                /\ GetCompletion(redis', PairOf(a)) = GetCompletion(redis, PairOf(a))
                /\ (ch'[a].code = 254) = (ch[a].pc = "locked")
                /\ (ch'[a].code \in {247, 255}) = (ch[a].pc = "fetching")
       /\ \A a \in AttemptIds :
            (/\ ch[a].pc = "locked" /\ ch'[a] # ch[a]
             /\ events' = events /\ wd' = wd) =>
                (ch'[a].pc = "exited" /\ ch'[a].code = 254)
                    = (att[a].status = "NONE" \/ cc[PairOf(a)].status = "NONE")]_vars

\* a child left with 254 on the removed row of its cc-pair and the
\* completion marker is unset
C33_Witness ==
    \E a \in AttemptIds :
        /\ ch[a].pc = "exited"
        /\ ch[a].code = 254
        /\ cc[PairOf(a)].status = "NONE"
        /\ GetCompletion(redis, PairOf(a)) = None

\* C34: a child that has acquired the generator lock and has ended by itself
\* (a return, a coded exit or an exception; not a kill) no longer holds the
\* lock
C34_LockFreeAtExit ==
    \A a \in AttemptIds :
        (/\ ch[a].pc = "exited"
         /\ ch[a].acquire = "ok"
         /\ ch[a].code \notin KillCodes) =>
            redis.keys[PairOf(a)].generator_lock # a

(* ------------------- the order inside one poll (C35) ------------------- *)
\* the watchdog of attempt a leaves its loop in this step
LeavesLoop(a) == wd[a].pc = "loop" /\ wd'[a].pc = "exit"

\* C35: a poll that ends the loop has renewed watchdog_active and active;
\* when the child had already exited, the poll reports the child's exit code
\* and classifies it from that code and the completion marker, never as
\* TERMINATED_BY_SIGNAL or TERMINATED_BY_ACTIVITY_TIMEOUT, whatever the
\* termination key and the connector's TTL are; a poll that renews the
\* watchdog signal over an exited child does not stay in the loop
C35_DoneBeforeSignals ==
    [][\A a \in AttemptIds :
        LET p == PairOf(a)
            exited == ch[a].pc = "exited"
        IN
        /\ LeavesLoop(a) =>
            /\ redis'.keys[p].watchdog
            /\ redis'.keys[p].active
            /\ exited =>
                /\ wd'[a].status \notin {"terminated_by_signal",
                                         "terminated_by_activity_timeout"}
                /\ wd'[a].has_exit
                /\ wd'[a].exit_code = ch[a].code
                /\ wd'[a].status =
                      IF ch[a].code = 0 \/ redis.keys[p].completion = 200
                      THEN "succeeded" ELSE FromCode(ch[a].code)
            /\ ~exited =>
                wd'[a].status \in {"terminated_by_signal",
                                   "terminated_by_activity_timeout"}
        /\ (/\ wd[a].pc = "loop" /\ exited
             /\ ~redis.keys[p].watchdog /\ redis'.keys[p].watchdog) =>
                wd'[a].pc = "exit"]_vars

\* the watchdog has classified a killed child by its exit code although the
\* termination key of its task was set when it polled
C35_Witness ==
    \E a \in AttemptIds :
        /\ wd[a].pc = "exit"
        /\ ch[a].pc = "exited"
        /\ a \in redis.terminate
        /\ wd[a].has_exit
        /\ wd[a].status = "process_signal_sigkill"

(* ---------------- the watchdog's exit and reporting (C36) -------------- *)
\* one attempt whose watchdog can leave its loop in each way: the child has
\* returned, failed or been killed, the termination key is set, the connector goes silent, or
\* the loop body raises; the database can raise while the watchdog reports
ReportAttempts == 1
ReportRuns == 1
ReportBatches == 1
ReportEvents == 2

ReportNext ==
    \/ BeatAlone
    \/ Tick
    \/ \E a \in AttemptIds :
        Watchdog(a) \/ WdLoopRaises(a) \/ Child(a)
    \/ \E a \in AttemptIds : EnvTerminate(a)

ReportSpec ==
    /\ Start([attempts |-> ReportAttempts, runs |-> ReportRuns,
              batches |-> ReportBatches, events |-> ReportEvents,
              ticks |-> Unbounded, results |-> PipelineResults,
              codes |-> KillCodes, beats |-> SoleBeat, recycle |-> FALSE,
           current |-> TRUE])
    /\ [][ReportNext]_vars

\* the task of the watchdog of attempt a ends in this step
WdEnds(a) == wd[a].pc \in {"loop", "exit"} /\ wd'[a].pc = "done"

\* C36: a watchdog that has entered its loop ends only through its exit and
\* reporting, whose step leaves watchdog_active cleared, whatever took it out
\* of the loop; when an exception string was captured, the same step marks
\* the attempt FAILED (the write is lost only when the database raises),
\* clears the signal and the task ends in FAILURE, which it does on no
\* other path
C36_ExitClearsWatchdog ==
    [][\A a \in AttemptIds : WdEnds(a) =>
        /\ wd[a].pc = "exit"
        /\ ~redis'.keys[PairOf(a)].watchdog
        /\ wd[a].exc =>
            /\ task'[a] = "FAILURE"
            /\ events' = events => att'[a].status = "FAILED"
            /\ ch'[a] = ch[a]
        /\ ~wd[a].exc => task'[a] = "SUCCESS"]_vars

\* the loop body raised while the watchdog signal was up; the watchdog has
\* marked the attempt FAILED, cleared the signal and raised
C36_Witness ==
    \E a \in AttemptIds :
        /\ wd[a].pc = "done"
        /\ wd[a].status = "watchdog_exceptioned"
        /\ wd[a].exc
        /\ att[a].status = "FAILED"
        /\ task[a] = "FAILURE"
        /\ ~redis.keys[PairOf(a)].watchdog
        /\ redis.keys[PairOf(a)].active

(* ------------------ the beat and the indexing trigger (C37) ------------ *)
\* ticks over one cc-pair under search settings that are the current ones
\* or not; an administrator can set a trigger and the schedule can change
TriggerAttempts == 2
TriggerRuns == 1
TriggerBatches == 0
TriggerEvents == 2

TriggerNext ==
    \/ BeatAlone
    \/ \E a \in AttemptIds : Watchdog(a) \/ ChildStarts(a) \/ ChKilled(a)
    \/ \E p \in Pairs : EnvTrigger(p) \/ EnvSetDue(p)

TriggerSpec ==
    /\ \E current \in BOOLEAN :
        Start([attempts |-> TriggerAttempts, runs |-> TriggerRuns,
               batches |-> TriggerBatches, events |-> TriggerEvents,
               ticks |-> Unbounded, results |-> PipelineResults,
               codes |-> KillCodes, beats |-> SoleBeat, recycle |-> FALSE,
               current |-> current])
    /\ [][TriggerNext]_vars

\* invocation i goes past the next cc-pair of its kick-off in this step
KickoffPasses(i) ==
    /\ beat[i].pc = "kickoff"
    /\ beat[i].todo # {}
    /\ beat'[i].pc \in {"kickoff", "taskid"}
    /\ beat'[i].todo # beat[i].todo \/ beat'[i].pc = "taskid"

\* C37: when the kick-off decides to index a cc-pair (no fence, should_index
\* accepts), under current search settings a trigger is cleared and the
\* reindex argument of try_creating_indexing_task is true exactly when the
\* trigger was REINDEX; under other search settings the trigger stays and
\* reindex is false. A pair that is skipped keeps its trigger and no other
\* pair's row is touched
C37_TriggerCleared ==
    [][\A i \in Invocations : KickoffPasses(i) =>
        LET p == Min(beat[i].todo)
            indexes == ~redis.keys[p].fence.exists
                        /\ cc[p].status \notin {"PAUSED", "DELETING", "NONE"}
                        /\ cc[p].due
        IN
        /\ \A q \in Pairs \ {p} : cc'[q] = cc[q]
        /\ cc'[p].status = cc[p].status /\ cc'[p].due = cc[p].due
        /\ (indexes /\ limits.current) =>
            /\ cc'[p].trigger = "none"
            /\ beat'[i].reindex = (cc[p].trigger = "REINDEX")
        /\ (indexes /\ ~limits.current) =>
            /\ cc'[p].trigger = cc[p].trigger
            /\ ~beat'[i].reindex
        /\ ~indexes =>
            /\ cc'[p].trigger = cc[p].trigger
            /\ beat'[i].reindex = beat[i].reindex
            /\ beat'[i].pc = "kickoff"]_vars

\* a tick under current search settings has taken a REINDEX trigger: the
\* attempt is created, the trigger is cleared and reindex is set
C37_Witness ==
    \E i \in Invocations : \E p \in Pairs :
        /\ limits.current
        /\ beat[i].pc = "taskid"
        /\ beat[i].cur = p
        /\ beat[i].reindex
        /\ cc[p].trigger = "none"
        /\ Fenced(redis, p)

(* --------------- a rejected doc-processing delivery (C38) -------------- *)
\* C38: a delivery of batch b that is rejected because lock_key_by_batch is
\* held changes no shared state: batches_done and the failure and document
\* totals, the attempt rows, the fence, the completion marker and the lock
\* are the same after the step as before it
C38_RejectionChangesNothing ==
    [][\A a \in AttemptIds : \A b \in BatchNums :
        DtRejected(a, b) =>
            /\ store' = store
            /\ att' = att
            /\ cc' = cc
            /\ redis'.batch_lock = redis.batch_lock
            /\ Payload(redis', PairOf(a)) = Payload(redis, PairOf(a))
            /\ GetCompletion(redis', PairOf(a)) = GetCompletion(redis, PairOf(a))]_vars

(* ------------------- terminal attempt statuses (C39) ------------------- *)
\* C39: the terminal status of an attempt is stable: once its row reads
\* SUCCESS, PARTIAL_SUCCESS, FAILED or CANCELED, no step of the watchdog,
\* the monitor, a doc-processing task or a beat tick changes it
C39_TerminalIsStable ==
    [][\A a \in AttemptIds :
        att[a].status \in TerminalStatuses =>
            att'[a].status = att[a].status]_vars

(* ------------------ the classification of the job (C40) ---------------- *)
\* one attempt with one batch whose child can return, fail, be killed or end
\* with a non-zero code after a completed fetch, while the doc-processing
\* task can write its own completion marker
ResultAttempts == 1
ResultRuns == 1
ResultBatches == 1
ResultEvents == 2
ResultCodes == {0 - 9, 1, 137}
ResultResults == {<<0, 10>>}

ResultNext ==
    \/ BeatAlone
    \/ \E a \in AttemptIds : Watchdog(a) \/ Child(a) \/ ChCompleteBadExit(a)
    \/ \E a \in AttemptIds : \E b \in BatchNums :
        DocCompletes(a, b) \/ DtPipelineRaise(a, b)

ResultSpec ==
    /\ Start([attempts |-> ResultAttempts, runs |-> ResultRuns,
              batches |-> ResultBatches, events |-> ResultEvents,
              ticks |-> Unbounded, results |-> ResultResults,
              codes |-> ResultCodes, beats |-> SoleBeat, recycle |-> FALSE,
              current |-> TRUE])
    /\ [][ResultNext]_vars

\* the watchdog of attempt a leaves its loop over a child that has exited
ClassifiesJob(a) ==
    /\ wd[a].pc = "loop"
    /\ wd'[a].pc = "exit"
    /\ ch[a].pc = "exited"

\* C40: the job is SUCCEEDED, without an exception string, when its exit
\* code is zero and also when the code is not zero but the completion marker
\* reads 200; when the code is not zero and the marker is unset or not 200
\* the status is from_code of the exit code and the exception string is
\* recorded, and then the exit that follows marks the attempt FAILED (the
\* write is lost only when the database raises); without an exception
\* string the exit of a classified job writes no status
C40_JobClassification ==
    [][\A a \in AttemptIds :
        LET p == PairOf(a)
            error == ch[a].code # 0
            ok == redis.keys[p].completion = 200
        IN
        /\ ClassifiesJob(a) =>
            /\ wd'[a].has_exit /\ wd'[a].exit_code = ch[a].code
            /\ (~error \/ ok) =>
                (wd'[a].status = "succeeded" /\ ~wd'[a].exc)
            /\ (error /\ ~ok) =>
                (wd'[a].status = FromCode(ch[a].code) /\ wd'[a].exc)
        /\ (wd[a].pc = "exit" /\ wd'[a].pc = "done" /\ wd[a].has_exit) =>
            /\ (wd[a].exc /\ events' = events) => att'[a].status = "FAILED"
            /\ ~wd[a].exc => att'[a] = att[a]]_vars

\* a child that ended with a non-zero code under a marker of 200 has been
\* classified SUCCEEDED, and its attempt was not marked FAILED for it
C40_Witness ==
    \E a \in AttemptIds :
        /\ wd[a].pc = "done"
        /\ wd[a].status = "succeeded"
        /\ ~wd[a].exc
        /\ ch[a].pc = "exited"
        /\ ch[a].code # 0
        /\ att[a].status # "FAILED"

====
